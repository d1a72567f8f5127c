\* One query over three names while the hosts file, and with it the table, changes.
SPECIFICATION FairSpec
CONSTANTS
  Clients = {p1}
  Names = {"a", "b", "c"}
  Tables <- MCTables
  NoName = NoName
  Broken = Broken
  Replies <- MCReplies
INVARIANT TypeOK
PROPERTIES CurrentPolicy ReloadTakesEffect
