\* Signatures, files, templates, the wizard, the session: requests race, answers fail, processes restart.
SPECIFICATION ContentSpec
CONSTANTS
    Server = {p1, p2}
    User = {"admin", "inspector", "customer", "colleague"}
    RoleOf <- Roles
    CustomerField = {"customerField"}
    SupervisorField = {"supervisorField"}
    Layout <- Layouts
    Nobody = "nobody"
    MaxObjects = 2
    MaxFrozen = 3
    MaxReportVersion = 5
    MaxRacedVersion = 3
    Driver = "local"
    FileServer = {p1, p2}
    Customer = {"customer1"}
    NoCustomer = "nobody"
    Attachment = {"attachment1"}
    MaxCustomerVersion = 3
    MaxLogos = 2
    TemplateServer = {h1}
    MaxTemplateVersion = 2
    MaxUploads = 3
    MaxDefinitions = 2
    RowCount = 3
    HeaderRole = {"customer"}
    Tab = {p1, p2}
    Call = {c1, c2}
    Tenant = {tenantA, tenantB}
    NoTenant = noTenant
    MaxPairs = 2
    MaxRefreshes = 2
SYMMETRY ContentSymmetry
INVARIANTS FrozenPictureKept  AttachmentFound UsableWorkbookStored SavedFormPassesGate CacheOfTenant
PROPERTIES  ApprovalIsSigned SupervisorKeepsForm OwnRotationKeepsSession
CHECK_DEADLOCK FALSE
