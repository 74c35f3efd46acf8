CONSTANTS
  Users = {"ana"}
  Notes = {101}
  NotesOf <- MCNotesOf
  MaxLogins = 2
  MaxReloads = 1
  Tasks = {1, 2}
  Badges = {"badge"}
  Labels = {"label"}
  PassCodes = {"pass"}
  Loops = {1, 2}
  MaxStarts = 2
  Employees = {"me", "ana"}
  FirstPage = {"me"}
  Me = "me"
  Limit = 2
  MaxItems = 2
  MaxAdding = 1
  MaxAsked = 1
  Bookings <- MCBookings
  Vehicles = {"van", "minivan", "truck"}
  Tabs <- MCTabs
  Slots <- MCSlots
  Months = {1, 2}
  GridDays <- MCGridDays
  Today = 3
  Horizon = 7
  Week <- MCWeek
  Fetches = {1, 2}
SPECIFICATION PagesSpec
INVARIANTS NoToastTwice ActiveMeansReading OneLookupPerCode CompanionsAsShown NoticeTellsWhoGoes GuestSeesNoPast DayGridIsFair
PROPERTIES ScannerGoesOn BadgeSettles ExpiredSessionEnds TitleSettles
CHECK_DEADLOCK FALSE
