-------------------------- MODULE LocationSettings --------------------------
(***************************************************************************)
(* The location and the settings sheet of one page that uses it: the       *)
(* location row of the sheet comes and goes with the access to the         *)
(* location, decides what the page's searches carry, and its change        *)
(* invalidates the page's results.                                         *)
(***************************************************************************)
EXTENDS Location

CONSTANTS
  Owner,       \* the page with the sheet
  Settings, LocationRow, NoValue, \* SettingsModel's
  MaxEdits,    \* bound: choices by the user
  MaxFaults    \* bound: file operations that fail

ASSUME OwnerAssumption == Owner \in Pages
ASSUME SheetAssumption ==
  Settings \in Seq(Range(Settings)) /\ NoValue \notin BOOLEAN /\ {MaxEdits, MaxFaults} \subseteq Nat

VARIABLES sheetRows, parser, file, pending, kids, kidRows, stale, kidPending, childrenDirty,
          saved, known, chosen, spoiled, written

Sheet == INSTANCE SettingsModel WITH
  Location <- LocationRow, Children <- {}, FirstChildren <- <<>>, MaxChanges <- MaxEdits,
  rows <- sheetRows, dirty <- childrenDirty, stored <- saved, used <- written

sheetVars == <<sheetRows, parser, file, pending, kids, kidRows, stale, kidPending, childrenDirty,
               saved, known, chosen, spoiled, written>>
locatedVars == <<locationVars, sheetVars>>

LocatedInit == LocationInit /\ Sheet!SheetInit

(* dispatchSearch() asks the sheet by id; a page without a sheet has no    *)
(* such setting.                                                           *)
Willing(p) == p = Owner /\ Sheet!value(LocationRow) = TRUE

PageNext ==
  /\ \E p \in Pages :
       \/ SetActive(p, Willing(p))
       \/ Prepopulate(p, Willing(p))
       \/ \E programmatic \in BOOLEAN : InvalidateResults(p, programmatic, Willing(p))
  /\ UNCHANGED sheetVars

(* accessChanged is handled before the answer's handler returns.           *)
Answer ==
  /\ AnswerNext
  /\ IF denied' # denied THEN Sheet!LocationAccessChanged(FALSE) ELSE UNCHANGED sheetVars

SheetEdited == UNCHANGED locationVars /\ \E row \in 1 .. Len(sheetRows), v \in BOOLEAN : Sheet!setData(row, v)

(* settingsChanged is connected to invalidateResults(); a write that fails *)
(* does not emit it.                                                       *)
SheetWritten(s, outcome) ==
  /\ Sheet!SettingTimeout(s, outcome)
  /\ IF outcome = "written"
     THEN InvalidateResults(Owner, FALSE, Willing(Owner)')
     ELSE UNCHANGED locationVars

LocatedNext ==
  \/ PageNext \/ Answer \/ SheetEdited
  \/ ServiceNext /\ UNCHANGED sheetVars
  \/ \E s \in Range(Settings), outcome \in {"written", "unloaded", "unsynced"} : SheetWritten(s, outcome)

LocatedSpec == LocatedInit /\ [][LocatedNext]_locatedVars

-----------------------------------------------------------------------------
LocatedTypeOK == LocationTypeOK /\ Sheet!SheetTypeOK

(* Location's: tokens, count, session and stop timer agree                 *)
(* (ubuntulocationservice.cpp:100-232), with every variable of its type.   *)
LocationFollowsTokens == LocatedTypeOK /\ SessionFollowsTokens

(* A search carries a location only while the system grants the access and *)
(* the user has not turned the page's setting off in the file: the sheet   *)
(* is made anew at each change of the access.                              *)
LocationNeedsConsent ==
  [][\A p \in Pages : sent'[p] # sent[p] /\ sent'[p] # "none" =>
       p = Owner /\ ~denied' /\ (file' # <<>> => file'[LocationRow] # FALSE \/ spoiled)]_locatedVars
=============================================================================
