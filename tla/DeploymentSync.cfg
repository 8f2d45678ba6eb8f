SPECIFICATION Spec
CONSTANTS
  Service = {"payments"}
  Repository = {"northstar", "elsewhere"}
  JiraProject = {"PAY"}
  Person = {"ann", "bob"}
  AllowedServices = {"payments"}
  AllowedRepositories = {"northstar"}
  AllowedJiraProjects = {"PAY"}
  MinimumPolicyVersion = 1
  Nobody = Nobody
  Task = {t1}
  MaxAttempts = 2
  AllowAutomaticUpdates = TRUE
  SettlementCovers = TRUE
  Tampering = TRUE
  Edited = Edited
  Unmarked = Unmarked
  None = None
  Catalogs <- MCCatalogs
  Requests <- MCRequests
  NotifySlack = TRUE
  CommentTouchesIssue = TRUE
  MaxChanges = 1
CHECK_DEADLOCK FALSE
INVARIANTS
  TypeOK
  AuthorisedAccess
  EvidenceOnRecord
  SensitiveIsMinimised
  SlackAfterGithub
PROPERTIES
  OutcomeIsTrue
