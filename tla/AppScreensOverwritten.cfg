CONSTANTS
  None = None
  People = {"ann", "bob"}
  Author = "ann"
  Sections = {"s1", "s2", "s3"}
  Initially = {3}
  MaxEdits = 2
  FileParts = 2
  MaxUploads = 1
  LinkLife = 3
  BankItems = {"q1"}
  Rubrics = {"r"}
  Limits = {0, 1}
  MaxGroups = 2
  MaxItems = 1
  MaxGroupEdits = 2
  Titles = {"a"}
  MaxTests = 2
  MaxChanges = 1
  Passages = {"p1", "p2"}
  Length <- MCLength
  Lead <- MCLead
  MaxLength = 5
  TextSizes = {"s", "l"}
  Standard = "s"
  NoMenu = NoMenu
  Items = {"c", "m", "t"}
  SectionOf <- MCSectionOf
  KindOf <- MCKindOf
  SlotsOf <- MCSlotsOf
  Options = {"A", "B"}
  Correct <- MCCorrect
  Selection = "selection"
  Tabs = {"t1"}
  Users = {"a"}
  MaxTokens = 3
  MaxExpired = 2
  Minor = TRUE
  MaxGrants = 2
  Devices = {"d1"}
  Invites = {1, 2}
  InvitedAs <- MCInvitedAs
  Names = {"n1", "n2"}
  Prices = {"p1"}
  Quantities = {0, 1}
  Centres = {"c1", "c2"}
  MaxOrders = 2
  MaxVisits = 2
  Accounts <- MCAccounts
  ClassCentre <- MCClassCentre
  Ranges <- MCRanges
  Filters <- MCFilters
  MaxSlots = 1
  LastMoment = 1
  Students = {"p", "q"}
  Young = {}
  Booked = {"p", "q"}
  AgeBands = {"adult"}
  Capacity = 3
  MaxCalls = 2
  Reports = {"r1", "r2"}
  SubjectOf <- MCSubjectOf
  MinorReports = {"r1"}
  MaxActions = 1
SPECIFICATION MCGroupSpec
PROPERTIES SecondLosesLoudly
CHECK_DEADLOCK FALSE
