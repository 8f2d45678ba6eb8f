SPECIFICATION Spec
CONSTANTS
  Service = {"payments"}
  Repository = {"northstar", "elsewhere"}
  JiraProject = {"PAY"}
  Person = {"ann", "bob"}
  AllowedServices = {"payments"}
  AllowedRepositories = {"northstar"}
  AllowedJiraProjects = {"PAY"}
  MinimumPolicyVersion = 1
  Nobody = Nobody
  Task = {t1}
  MaxAttempts = 2
  AllowAutomaticUpdates = TRUE
  SettlementCovers = TRUE
  Tampering = FALSE
  Edited = Edited
  Unmarked = Unmarked
  None = None
  Catalogs <- MCCatalogs
  Requests <- MCRequests
  NotifySlack = TRUE
  CommentTouchesIssue = TRUE
  MaxChanges = 0
CHECK_DEADLOCK FALSE
INVARIANT
  CancellationKeepsTruth
