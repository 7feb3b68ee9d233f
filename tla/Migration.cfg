SPECIFICATION FairSpec
CONSTANTS
  fetch = fetch
  digest = digest
  events = events
  others = others
  old = old
  new = new
  ref = ref
  Null = Null
  Absent = Absent
  Processes = {fetch, digest}
  Tables = {events, others}
  Events = events
  Rows = {old, new}
  OldRows = {old}
  References = {ref}
  MaxKills = 1
INVARIANTS
  NullsAreExplained
PROPERTIES
  NothingIsErased
  StartsRecover
