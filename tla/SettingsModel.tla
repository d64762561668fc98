---------------------------- MODULE SettingsModel ----------------------------
(***************************************************************************)
(* The settings sheet of a scope (settingsmodel.cpp, and what scope.cpp    *)
(* does to it): a row for each declared setting, kept in an ini file, then *)
(* a row for each child of an aggregator, kept by the aggregator.  A row   *)
(* is written when its timer fires.  The aggregator gets new children,     *)
(* which the shell's metadata know only later.                             *)
(***************************************************************************)
EXTENDS Integers, Sequences, SequencesExt, ListOperators

CONSTANTS
  Settings,    \* ids of the declared settings, in order; all are booleans, TRUE by default
  Location,    \* the id "internal.location"
  Children,    \* ids of the scopes that are or become children
  FirstChildren,
  NoValue,
  MaxChanges,  \* bound: edits by the user and new children
  MaxFaults    \* bound: calls and file operations that fail

(* An aggregator names no child twice.                                     *)
ASSUME SettingsAssumption ==
  /\ Settings \in Seq(Range(Settings)) /\ Range(Settings) \cap Children = {}
  /\ NoValue \notin BOOLEAN /\ NoValue \notin [index : Nat, value : BOOLEAN]
  /\ FirstChildren \in Seq(Children) /\ IsInjective(FirstChildren)
  /\ {MaxChanges, MaxFaults} \subseteq Nat

VARIABLES
  denied,   \* LocationAccessHelper::isLocationAccessDenied()
  rows,     \* m_data
  parser,   \* m_settings: what the ini parser holds, <<>> for null
  file,     \* settings.ini, <<>> when there is none
  pending,  \* m_timers: the value of the timers that run
  kids,     \* m_child_scopes
  kidRows,  \* m_child_scopes_data
  stale,    \* m_requireChildScopesRefresh
  kidPending, \* m_child_scopes_timers: index and value of those that run
  dirty,    \* Scope::m_childScopesDirty
  stored,   \* the aggregator's list of children: external
  known,    \* the scopes with cached metadata
  chosen,   \* history: what the user last chose and nothing has discarded
  spoiled,  \* history: a write failed, or a row was toggled while a child was skipped
  used      \* bounds

sheet == <<rows, parser, pending, kids, kidRows, stale, kidPending>>
sheetVars == <<sheet, denied, file, dirty, stored, known, chosen, spoiled, used>>

Ids == Range(Settings) \cup Children
Kids == [id : Children, enabled : BOOLEAN]
MaybeValues == BOOLEAN \cup {NoValue}
NoFile == <<>>
EmptyFile == [s \in Range(Settings) |-> NoValue]
Idle == [id \in Children |-> NoValue]
IdsOf(list) == [i \in 1 .. Len(list) |-> list[i].id]
EnabledIn(list, c) == \E k \in Range(list) : k = [id |-> c, enabled |-> TRUE]

(* The location row needs access to the location.                          *)
RowsWith(access) == Selected(Settings, IF access THEN Range(Settings) ELSE Range(Settings) \ {Location})

(* Mutant: the row is there without the access too.                        *)
NewModelAlways(access) ==
  rows' = Settings /\ parser' = file /\ pending' = [s \in Range(Settings) |-> NoValue]

(* SettingsModel(): the file is read when there is one.                    *)
NewModel(access) ==
  /\ rows' = RowsWith(access)
  /\ parser' = file
  /\ pending' = [s \in Range(Settings) |-> NoValue]

SheetInit ==
  /\ denied = TRUE /\ rows = RowsWith(FALSE)
  /\ parser = NoFile /\ file = NoFile /\ pending = EmptyFile
  /\ kids = <<>> /\ kidRows = <<>> /\ stale = FALSE /\ kidPending = Idle
  /\ dirty = TRUE
  /\ stored = [i \in 1 .. Len(FirstChildren) |-> [id |-> FirstChildren[i], enabled |-> TRUE]]
  /\ known = Range(FirstChildren)
  /\ chosen = [id \in Ids |-> NoValue] /\ spoiled = FALSE
  /\ used = [changes |-> 0, faults |-> 0]

Use(field) == used' = [used EXCEPT ![field] = @ + 1]
FaultsOf(fails) == IF fails THEN used.faults < MaxFaults /\ Use("faults") ELSE UNCHANGED used

-----------------------------------------------------------------------------
(* Reads.  data() goes by row, value() by id; both load the file lazily.   *)

Loaded == IF parser = NoFile THEN file ELSE parser
StoredValue(s) == IF Loaded = NoFile \/ Loaded[s] = NoValue THEN TRUE ELSE Loaded[s]

data(row) ==
  IF row <= Len(rows) THEN StoredValue(rows[row]) ELSE kids[row - Len(rows)].enabled

value(id) ==
  IF id \in Range(kidRows) THEN EnabledIn(kids, id)
  ELSE IF id \in Range(rows) THEN StoredValue(id) ELSE NoValue

-----------------------------------------------------------------------------
(* Mutant: that a child has no metadata yet is not remembered.             *)
UpdateOnce(throws, metadata, pendingKids, pendingChoices) ==
  /\ dirty' = FALSE
  /\ IF throws
     THEN UNCHANGED <<kids, kidRows, stale>> /\ kidPending' = pendingKids /\ chosen' = pendingChoices
     ELSE /\ kids' = stored
          /\ kidRows' = Selected(IdsOf(stored), metadata)
          /\ stale' = FALSE
          /\ kidPending' = Idle
          /\ chosen' = [id \in Ids |-> IF id \in Children /\ kidPending[id] # NoValue
                                       THEN NoValue ELSE pendingChoices[id]]

(* The list of children.  A timer goes with its row, whatever it was to    *)
(* write; if child_scopes() throws the old list stays.                     *)
update_child_scopes(throws, metadata, pendingKids, pendingChoices) ==
  /\ dirty' = FALSE
  /\ IF throws
     THEN UNCHANGED <<kids, kidRows, stale>> /\ kidPending' = pendingKids /\ chosen' = pendingChoices
     ELSE /\ kids' = stored
          /\ kidRows' = Selected(IdsOf(stored), metadata)
          /\ stale' = (\E c \in Range(IdsOf(stored)) : c \notin metadata)
          /\ kidPending' = Idle
          /\ chosen' = [id \in Ids |-> IF id \in Children /\ kidPending[id] # NoValue
                                       THEN NoValue ELSE pendingChoices[id]]

(* dispatchSearch() looks for changed children first.                      *)
Dispatch(throws) ==
  /\ dirty /\ FaultsOf(throws)
  /\ update_child_scopes(throws, known, kidPending, chosen)
  /\ UNCHANGED <<denied, rows, parser, file, pending, stored, known, spoiled>>

(* The aggregator has a new child, at either end of its list.              *)
NewChild(c) ==
  /\ used.changes < MaxChanges /\ Use("changes") /\ c \notin Range(IdsOf(stored))
  /\ \E at \in {1, Len(stored) + 1} : stored' = InsertAt(stored, at, [id |-> c, enabled |-> TRUE])
  /\ UNCHANGED <<sheet, denied, file, dirty, known, chosen, spoiled>>

(* Scopes::scopeRegistryChanged(): the listing that it starts ends later.  *)
InvalidateChildScopes ==
  /\ ~dirty /\ dirty' = TRUE
  /\ UNCHANGED <<sheet, denied, file, stored, known, chosen, spoiled, used>>

MetadataRefreshed(found, throws) ==
  /\ known' = found /\ known \subseteq found /\ found \subseteq Range(IdsOf(stored))
  /\ known # found \/ stale
  /\ IF stale
     THEN FaultsOf(throws) /\ update_child_scopes(throws, found, kidPending, chosen)
     ELSE ~throws /\ UNCHANGED <<kids, kidRows, stale, kidPending, dirty, chosen, used>>
  /\ UNCHANGED <<denied, rows, parser, file, pending, stored, spoiled>>

(* LocationAccessHelper::accessChanged: a new model, so choices that still *)
(* wait are gone.                                                          *)
LocationAccessChanged(throws) ==
  /\ denied' = ~denied /\ FaultsOf(throws)
  /\ NewModel(denied)
  /\ IF throws
     THEN kids' = <<>> /\ kidRows' = <<>> /\ stale' = FALSE
     ELSE /\ kids' = stored /\ kidRows' = Selected(IdsOf(stored), known)
          /\ stale' = (\E c \in Range(IdsOf(stored)) : c \notin known)
  /\ dirty' = FALSE /\ kidPending' = Idle
  /\ chosen' = [id \in Ids |-> IF (IF id \in Children THEN kidPending[id] ELSE pending[id]) # NoValue
                               THEN NoValue ELSE chosen[id]]
  /\ UNCHANGED <<file, stored, known, spoiled>>

-----------------------------------------------------------------------------
(* Writes.                                                                 *)

setData(row, v) ==
  /\ used.changes < MaxChanges /\ Use("changes")
  /\ IF row <= Len(rows)
     THEN /\ pending' = [pending EXCEPT ![rows[row]] = v]
          /\ chosen' = [chosen EXCEPT ![rows[row]] = v]
          /\ UNCHANGED <<kidPending, spoiled>>
     ELSE LET i == row - Len(rows) IN
          /\ kidPending' = [kidPending EXCEPT ![kidRows[i]] = [index |-> i, value |-> v]]
          /\ chosen' = [chosen EXCEPT ![kidRows[i]] = v]
          /\ spoiled' = (spoiled \/ stale)
          /\ UNCHANGED pending
  /\ UNCHANGED <<denied, rows, parser, file, kids, kidRows, stale, dirty, stored, known>>

(* settings_timeout() for a child: the list goes back to the aggregator    *)
(* whole, which adds the children that it does not name.                   *)
WithAll(list) ==
  list \o Selected(stored, {k \in Range(stored) : k.id \notin Range(IdsOf(list))})

WriteKids(list) == stored' = WithAll(list)

ChildTimeout(c, throws) ==
  /\ kidPending[c] # NoValue /\ kidPending' = [kidPending EXCEPT ![c] = NoValue]
  /\ kids' = [kids EXCEPT ![kidPending[c].index].enabled = kidPending[c].value]
  /\ FaultsOf(throws) /\ spoiled' = (spoiled \/ throws)
  /\ IF throws THEN UNCHANGED stored ELSE WriteKids(kids')
  /\ UNCHANGED <<denied, rows, parser, file, pending, kidRows, stale, dirty, known, chosen>>

(* settings_timeout() for a setting.  A file that is missing is created;   *)
(* loading may fail then, and so may the sync after the parser has the     *)
(* value.                                                                  *)
SettingTimeout(s, outcome) ==
  /\ pending[s] # NoValue /\ pending' = [pending EXCEPT ![s] = NoValue]
  /\ LET created == IF file = NoFile THEN EmptyFile ELSE file
         changed == [(IF parser = NoFile THEN created ELSE parser) EXCEPT ![s] = pending[s]]
     IN CASE outcome = "written"  -> parser' = changed /\ file' = changed
          [] outcome = "unloaded" -> parser = NoFile /\ parser' = parser /\ file' = created
          [] outcome = "unsynced" -> parser' = changed /\ file' = created
  /\ FaultsOf(outcome # "written") /\ spoiled' = (spoiled \/ outcome # "written")
  /\ UNCHANGED <<denied, rows, kids, kidRows, stale, kidPending, dirty, stored, known, chosen>>

SheetNext ==
  \/ \E throws \in BOOLEAN : Dispatch(throws) \/ LocationAccessChanged(throws)
  \/ \E c \in Children : NewChild(c)
  \/ InvalidateChildScopes
  \/ \E found \in SUBSET Children, throws \in BOOLEAN : MetadataRefreshed(found, throws)
  \/ \E row \in 1 .. Len(rows) + Len(kidRows), v \in BOOLEAN : setData(row, v)
  \/ \E c \in Children, throws \in BOOLEAN : ChildTimeout(c, throws)
  \/ \E s \in Range(Settings), outcome \in {"written", "unloaded", "unsynced"} : SettingTimeout(s, outcome)

SheetSpec == SheetInit /\ [][SheetNext]_sheetVars

-----------------------------------------------------------------------------
SheetTypeOK ==
  /\ {denied, stale, dirty, spoiled} \subseteq BOOLEAN
  /\ Range(rows) \subseteq Range(Settings)
  /\ parser \in [Range(Settings) -> MaybeValues] \cup {NoFile} /\ file \in [Range(Settings) -> MaybeValues] \cup {NoFile}
  /\ pending \in [Range(Settings) -> MaybeValues]
  /\ kids \in Seq(Kids) /\ kidRows \in Seq(Children) /\ stored \in Seq(Kids)
  /\ IsInjective(IdsOf(stored))
  /\ \A c \in Children : kidPending[c] # NoValue =>
       kidPending[c].value \in BOOLEAN /\ kidPending[c].index \in 1 .. Len(kids) /\ c \in Range(kidRows)
  /\ known \subseteq Children /\ chosen \in [Ids -> MaybeValues]

(* What the user chose last, and no new list or model has discarded, is    *)
(* what the ini file or the aggregator holds once its timer has fired, and *)
(* it is kept through later writes of other rows; so long as no write      *)
(* failed and no row was toggled while a child had none.                   *)
ChosenIsKept ==
  spoiled \/ \A id \in Ids :
    chosen[id] # NoValue =>
      IF id \in Children THEN kidPending[id] # NoValue \/ EnabledIn(stored, id) = chosen[id]
      ELSE pending[id] # NoValue \/ (file # NoFile /\ file[id] = chosen[id])

(* A child that has metadata has a row: one that was skipped gets it when  *)
(* the metadata come (LP: #1484299), unless that call fails.               *)
KnownChildrenHaveRows ==
  used.faults = 0 => \A i \in 1 .. Len(kids) : kids[i].id \in known => kids[i].id \in Range(kidRows)

(* The two ways to read a row agree when no child was skipped.             *)
ReadsAgree ==
  ~stale => \A i \in 1 .. Len(rows) + Len(kidRows) :
    data(i) = value(IF i <= Len(rows) THEN rows[i] ELSE kidRows[i - Len(rows)])

(* The three together: what the user chose is stored, every child has its  *)
(* row in the end, and both ways to read a row say the same                *)
(* (settingsmodel.cpp:159-518).                                            *)
SheetHolds == SheetTypeOK /\ ChosenIsKept /\ KnownChildrenHaveRows /\ ReadsAgree
=============================================================================
