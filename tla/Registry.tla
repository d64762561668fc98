------------------------------ MODULE Registry ------------------------------
(***************************************************************************)
(* The scopes the dash shows (scopes.cpp, favorites.cpp, overviewscope.cpp, *)
(* overviewresults.cpp and the canned queries of scope.cpp).               *)
(*                                                                         *)
(* A worker thread lists the scope registry, at start and whenever it is   *)
(* said to have changed; the listing decides which of the favourites in    *)
(* GSettings have a row, what the overview shows and where a canned query  *)
(* leads.  The user and other processes change the favourites meanwhile.   *)
(***************************************************************************)
EXTENDS Integers, Sequences, SequencesExt, ListOperators

CONSTANTS
  ByName,        \* the scope ids, in the order of their names
  ClickScope,    \* CLICK_SCOPE_ID
  Invisible,     \* the scopes that the overview does not offer
  FirstInstalled, FirstFavorites,
  NoScope,
  OtherRegistries, OtherFavorites,  \* what others may make of them
  MaxChanges,    \* bound: changes of the registry and of GSettings by others
  MaxCommands,   \* bound: calls by the shell
  MaxFailures    \* bound: listings that fail

Ids == Range(ByName)

ASSUME IdsAssumption ==
  /\ ByName \in Seq(Ids) /\ IsInjective(ByName) /\ ClickScope \in Ids /\ NoScope \notin Ids
  /\ Invisible \subseteq Ids /\ FirstInstalled \subseteq Ids
  /\ OtherRegistries \subseteq SUBSET Ids
  /\ \A s \in OtherFavorites \cup {FirstFavorites} : s \in Seq(Ids) /\ IsInjective(s)
ASSUME BoundsAssumption == {MaxChanges, MaxCommands, MaxFailures} \subseteq Nat

VARIABLES
  installed,  \* what the registry has: external
  phase,      \* start of the Scopes object, m_loaded
  listing,    \* m_listThread and its m_metadataMap
  timer,      \* m_registryRefreshTimer runs
  cached,     \* the keys of m_cachedMetadata
  favs,       \* Favorites::m_favoriteScopes
  stored,     \* favoriteScopes in GSettings
  reported,   \* a change of GSettings is about to be reported
  rows,       \* m_scopes: id and m_favorite of each Scope
  temps,      \* m_tempScopes: m_favorite by id
  shown,      \* the two categories of the overview
  delayed,    \* m_delayedActivation of the page that asked
  stuck,      \* a loop does not end, or a move is out of range
  tangled,    \* history: a Scope took a favourite for none, or one without metadata
  used        \* bounds: changes, commands and failures so far

vars == <<installed, phase, listing, timer, cached, favs, stored, reported, rows, temps,
          shown, delayed, stuck, tangled, used>>

NoListing == [kind |-> "none", ended |-> FALSE, found |-> {}]
Listings == [kind : {"none", "discovery", "refresh"}, ended : BOOLEAN, found : SUBSET Ids]
IdsOf(s) == [i \in 1 .. Len(s) |-> s[i].id]

Init ==
  /\ installed = FirstInstalled
  /\ phase = "starting" /\ listing = NoListing /\ timer = FALSE /\ cached = {}
  /\ favs = FirstFavorites /\ stored = FirstFavorites /\ reported = FALSE
  /\ rows = <<>> /\ temps = <<>> /\ shown = [favorites |-> <<>>, other |-> <<>>]
  /\ delayed = NoScope /\ stuck = FALSE /\ tangled = FALSE
  /\ used = [changes |-> 0, commands |-> 0, failures |-> 0]

-----------------------------------------------------------------------------
(* Lists of rows.                                                          *)

(* The fields that handlers pass on; wrote: the favourites were stored.    *)
State == [cached |-> cached, favs |-> favs, stored |-> stored, wrote |-> FALSE, rows |-> rows,
          temps |-> temps, shown |-> shown, delayed |-> delayed, stuck |-> stuck]

(* GSettings may report our own write once the slot is connected again.    *)
SetState(p) ==
  /\ cached' = p.cached /\ favs' = p.favs /\ stored' = p.stored /\ rows' = p.rows
  /\ temps' = p.temps /\ shown' = p.shown /\ delayed' = p.delayed /\ stuck' = p.stuck

(* The list of Favorites: read when it changes elsewhere, stored when it   *)
(* is changed here, also to what it was.                                   *)
ReadFavorites(p) == [p EXCEPT !.favs = p.stored]
Store(p, s) == [p EXCEPT !.favs = s, !.stored = s, !.wrote = TRUE]

Has(s, id) == \E i \in 1 .. Len(s) : s[i] = id
Position(s, id) == IF Has(s, id) THEN CHOOSE i \in 1 .. Len(s) : s[i] = id ELSE 0
GetScopeById(p, id) == Position(IdsOf(p.rows), id)

(* QList::insert() past the end appends.                                  *)
Inserted(s, i, row) == InsertAt(s, IF i > Len(s) THEN Len(s) + 1 ELSE i, row)

MovedTo(s, from, to) == InsertAt(RemoveAt(s, from), to, s[from])

(* Both lists of rows follow a list of ids in the same way: rows that are  *)
(* gone are removed, new ones inserted at the place of their id; new[id]   *)
(* is the row of a new one.                                                *)
InsertMissing(s, ids, new) ==
  LET old == Range(IdsOf(s))
      upTo[k \in 0 .. Len(ids)] ==
        IF k = 0 THEN s
        ELSE IF ids[k] \in old THEN upTo[k - 1] ELSE Inserted(upTo[k - 1], k, new[ids[k]])
  IN upTo[Len(ids)]

(* One turn of the loop that moves each row to the position of its id; the *)
(* loop ends when its index has passed the last row.                       *)
MoveRow(ids, loop) ==
  LET pos == Position(ids, loop.s[loop.i].id)
  IN IF loop.i > Len(loop.s) THEN loop
     ELSE IF pos \in {0, loop.i} THEN [loop EXCEPT !.i = @ + 1]
     ELSE [loop EXCEPT !.s = MovedTo(@, loop.i, pos)]

MoveRows(s, ids, n) ==
  LET turn[k \in 0 .. n] == IF k = 0 THEN [s |-> s, i |-> 1] ELSE MoveRow(ids, turn[k - 1])
  IN turn[n]

(* Moving n rows home takes less than 2^(n - 1) moves, see SyncModel.      *)
Enough(s) == Power[Len(s)] + Len(s)

(* The favourites that are in the cache, and the click scope.              *)
ListedFavorites(p) ==
  LET kept == Selected(p.favs, p.cached)
  IN IF ClickScope \in p.cached /\ ~Has(kept, ClickScope) THEN Append(kept, ClickScope) ELSE kept

FollowFavorites(old, ids) ==
  LET left == Selected(old, [id : Range(ids), favorite : BOOLEAN])
      full == InsertMissing(left, ids, [id \in Range(ids) |-> [id |-> id, favorite |-> TRUE]])
  IN MoveRows(full, ids, Enough(full))

(* processFavoriteScopes(): favourites that are not in the cache are       *)
(* dropped for good, the click scope is put back, the rows follow.         *)
ProcessFavoriteScopes(p) ==
  LET all  == ListedFavorites(p)
      loop == FollowFavorites(p.rows, all)
  IN [(IF all # p.favs THEN Store(p, all) ELSE p) EXCEPT
        !.rows = loop.s, !.stuck = p.stuck \/ loop.i <= Len(loop.s)]

(* OverviewResultsModel::setResults().                                     *)
SetResults(old, ids) ==
  LET result == [id \in Range(old) \cup Range(ids) |-> [id |-> id]]
      kept == Selected(old, Range(ids))
      full == InsertMissing([i \in DOMAIN kept |-> result[kept[i]]], ids, result)
  IN IF old = <<>> THEN ids ELSE IdsOf(MoveRows(full, ids, Enough(full)).s)

(* processFavorites() of the overview: favourites in their order, then the *)
(* other visible scopes by name.                                           *)
UpdateOverview(p) ==
  LET favorites == Selected(p.favs, p.cached)
      other == Selected(ByName, p.cached \ (Range(favorites) \cup Invisible))
  IN [p EXCEPT !.shown = [favorites |-> SetResults(p.shown.favorites, favorites),
                          other |-> SetResults(p.shown.other, other)]]

-----------------------------------------------------------------------------
(* Listings.                                                               *)

(* executeCannedQuery(): to the row of the scope, to a page of its own if  *)
(* its metadata is known, or to a listing that may bring the metadata.     *)
FindScope(p, id) ==
  IF GetScopeById(p, id) # 0 \/ id \notin p.cached THEN p
  ELSE [p EXCEPT !.temps = [x \in DOMAIN p.temps \cup {id} |->
                              IF x = id THEN FALSE ELSE p.temps[x]]]

(* The signal metadataRefreshed: the overview is filled and the delayed    *)
(* query is tried once more, with success or activationFailed.             *)
MetadataRefreshed(p) ==
  LET q == UpdateOverview(p)
  IN [FindScope(q, p.delayed) EXCEPT !.delayed = NoScope]

StartListing(kind) == listing' = [NoListing EXCEPT !.kind = kind]

(* refreshScopeMetadata(): one listing at a time, none without a runtime.  *)
RefreshScopeMetadata ==
  IF listing.kind = "none" /\ phase = "loaded" THEN StartListing("refresh") ELSE UNCHANGED listing

PopulateScopes ==
  /\ phase = "starting" /\ listing.kind = "none"
  /\ StartListing("discovery")
  /\ UNCHANGED <<installed, phase, timer, cached, favs, stored, reported, rows, temps, shown,
                 delayed, stuck, tangled, used>>

(* ScopeListWorker::run(): an exception leaves the map empty.              *)
ScopeListWorkerRun(fails) ==
  /\ listing.kind # "none" /\ ~listing.ended
  /\ fails => used.failures < MaxFailures
  /\ listing' = [listing EXCEPT !.ended = TRUE, !.found = IF fails THEN {} ELSE installed]
  /\ used' = [used EXCEPT !.failures = IF fails THEN @ + 1 ELSE @]
  /\ UNCHANGED <<installed, phase, timer, cached, favs, stored, reported, rows, temps, shown,
                 delayed, stuck, tangled>>

(* Our own write of the favourites may be reported like one by others.     *)
Report(p) == reported' \in {reported, reported \/ p.wrote}

(* discoveryFinished(), without a runtime the end of the story; with one   *)
(* the rest waits for a location, a refusal or one second.                 *)
DiscoveryFinished(runtime) ==
  /\ listing.kind = "discovery" /\ listing.ended /\ phase = "starting" /\ ~stuck
  /\ ~runtime => listing.found = {} /\ used.failures > 0
  /\ phase' = IF runtime THEN "locating" ELSE "broken"
  /\ cached' = IF runtime THEN listing.found ELSE cached
  /\ UNCHANGED <<installed, listing, timer, favs, stored, reported, rows, temps, shown, delayed,
                 stuck, tangled, used>>

CompleteDiscoveryFinished ==
  /\ phase = "locating" /\ ~stuck
  /\ LET p == MetadataRefreshed(ProcessFavoriteScopes(State)) IN SetState(p) /\ Report(p)
  /\ phase' = "loaded" /\ listing' = NoListing
  /\ UNCHANGED <<installed, timer, tangled, used>>

(* Mutant: the thread that has ended still counts as in progress.          *)
RefreshKeepsThread ==
  /\ listing.kind = "refresh" /\ listing.ended /\ ~stuck
  /\ LET p == MetadataRefreshed(ProcessFavoriteScopes([State EXCEPT !.cached = listing.found]))
     IN SetState(p) /\ Report(p)
  /\ listing' = [NoListing EXCEPT !.kind = "discovery", !.ended = TRUE]
  /\ UNCHANGED <<installed, phase, timer, tangled, used>>

RefreshFinished ==
  /\ listing.kind = "refresh" /\ listing.ended /\ ~stuck
  /\ LET p == MetadataRefreshed(ProcessFavoriteScopes([State EXCEPT !.cached = listing.found]))
     IN SetState(p) /\ Report(p)
  /\ listing' = NoListing
  /\ UNCHANGED <<installed, phase, timer, tangled, used>>

(* The list update callback, set with the runtime, arms the timer; its slot *)
(* scopeRegistryChanged() also invalidates the results of every page.      *)
RegistryChanges(s) ==
  /\ s # installed /\ used.changes < MaxChanges
  /\ installed' = s /\ used' = [used EXCEPT !.changes = @ + 1]
  /\ timer' = (timer \/ phase \in {"locating", "loaded"})
  /\ UNCHANGED <<phase, listing, cached, favs, stored, reported, rows, temps, shown, delayed, stuck, tangled>>

ScopeRegistryChanged ==
  /\ timer /\ ~stuck
  /\ timer' = FALSE /\ RefreshScopeMetadata
  /\ UNCHANGED <<installed, phase, cached, favs, stored, reported, rows, temps, shown, delayed, stuck, tangled, used>>

-----------------------------------------------------------------------------
(* Favourites.                                                             *)

(* Another process writes the favourites; the change is reported later.    *)
GSettingsChange(s) ==
  /\ used.changes < MaxChanges /\ s # stored
  /\ stored' = s /\ reported' = TRUE /\ used' = [used EXCEPT !.changes = @ + 1]
  /\ UNCHANGED <<installed, phase, listing, timer, cached, favs, rows, temps, shown, delayed, stuck, tangled>>

FavoritesChanged(p) == UpdateOverview(ProcessFavoriteScopes(p))

(* dashSettingsChanged(), whatever the phase.                              *)
DashSettingsChanged ==
  /\ reported /\ ~stuck
  /\ LET p == FavoritesChanged(ReadFavorites(State))
     IN SetState(p) /\ reported' \in {FALSE, p.wrote}
  /\ UNCHANGED <<installed, phase, listing, timer, tangled, used>>

(* setFavorite() of Favorites                                              *)
KeepFavorite(p, id) == Store(p, IF Has(p.favs, id) THEN p.favs ELSE Append(p.favs, id))
DropFavorite(p, id) == Store(p, RemoveAt(p.favs, Position(p.favs, id)))

(* Mutant: the row goes, the favourite stays in GSettings.                 *)
SetFavoriteRow(p, id, value) ==
  LET row == GetScopeById(p, id)
  IN IF value THEN KeepFavorite(p, id)
     ELSE IF id = ClickScope \/ row = 0 THEN p
     ELSE [p EXCEPT !.rows = RemoveAt(@, row)]

(* setFavorite() of Scopes: a favourite that is set again gets one more    *)
(* row, and one without metadata none.                                     *)
SetFavorite(p, id, value) ==
  IF value
  THEN LET q == KeepFavorite(p, id)
       IN [q EXCEPT !.rows = IF id \notin p.cached THEN @
                             ELSE Inserted(@, Position(q.favs, id), [id |-> id, favorite |-> TRUE])]
  ELSE IF id = ClickScope \/ ~Has(p.favs, id) THEN p
  ELSE LET row == GetScopeById(p, id)
       IN [DropFavorite(p, id) EXCEPT !.rows = IF row = 0 THEN @ ELSE RemoveAt(@, row)]

Tangles(p, id, value) == value /\ (Has(p.favs, id) \/ id \notin p.cached)

Command ==
  /\ phase = "loaded" /\ ~stuck /\ used.commands < MaxCommands
  /\ used' = [used EXCEPT !.commands = @ + 1]

(* Scope::setFavorite() of the page of row i: ignored if the flag agrees.  *)
SetFavoriteOfRow(i, value) ==
  /\ Command /\ rows[i].favorite # value
  /\ LET p == SetFavorite([State EXCEPT !.rows[i].favorite = value], rows[i].id, value)
     IN SetState(p) /\ Report(p)
  /\ tangled' = (tangled \/ Tangles(State, rows[i].id, value))
  /\ UNCHANGED <<installed, phase, listing, timer>>

(* Scope::setFavorite() of a temporary page: its flag is its own.          *)
SetFavoriteOfTemp(id, value) ==
  /\ Command /\ temps[id] # value
  /\ LET p == SetFavorite([State EXCEPT !.temps[id] = value], id, value)
     IN SetState(p) /\ Report(p)
  /\ tangled' = (tangled \/ Tangles(State, id, value))
  /\ UNCHANGED <<installed, phase, listing, timer>>

(* setFavorite() from the overview, which may still show what was before.  *)
SetFavoriteOfOverview(id) ==
  LET value == ~Has(shown.favorites, id)
      p == SetFavorite(State, id, value)
  IN /\ Command /\ SetState(p) /\ Report(p)
     /\ tangled' = (tangled \/ Tangles(State, id, value))
     /\ UNCHANGED <<installed, phase, listing, timer>>

(* moveFavoriteTo(): positions among the favourites move rows.             *)
MoveFavoriteTo(id, pos) ==
  /\ Command
  /\ LET from == Position(favs, id)
         s == MovedTo(favs, from, pos)
         bad == from > Len(rows) \/ pos > Len(rows)
     IN /\ from \notin {0, pos} /\ pos <= Len(favs)
        /\ SetState([Store(State, s) EXCEPT !.rows = IF bad THEN @ ELSE MovedTo(@, from, pos),
                                             !.stuck = bad])
        /\ Report(Store(State, s))
  /\ UNCHANGED <<installed, phase, listing, timer, tangled>>

(* A canned query, from the response to an activation.                     *)
ExecuteCannedQuery(id) ==
  /\ Command
  /\ IF Has(IdsOf(rows), id) \/ id \in cached
     THEN SetState(FindScope(State, id)) /\ UNCHANGED listing
     ELSE SetState([State EXCEPT !.delayed = id]) /\ RefreshScopeMetadata
  /\ UNCHANGED <<installed, phase, timer, reported, tangled>>

CloseScope(id) ==
  /\ Command
  /\ SetState([State EXCEPT !.temps = [x \in DOMAIN temps \ {id} |-> temps[x]]])
  /\ UNCHANGED <<installed, phase, listing, timer, reported, tangled>>

Next ==
  \/ PopulateScopes \/ CompleteDiscoveryFinished \/ RefreshFinished
  \/ ScopeRegistryChanged \/ DashSettingsChanged
  \/ \E b \in BOOLEAN : ScopeListWorkerRun(b) \/ DiscoveryFinished(b)
  \/ \E s \in OtherRegistries : RegistryChanges(s)
  \/ \E s \in OtherFavorites : GSettingsChange(s)
  \/ \E i \in 1 .. Len(rows), b \in BOOLEAN : SetFavoriteOfRow(i, b)
  \/ \E id \in DOMAIN temps : CloseScope(id) \/ \E b \in BOOLEAN : SetFavoriteOfTemp(id, b)
  \/ \E id \in Range(shown.favorites) \cup Range(shown.other) : SetFavoriteOfOverview(id)
  \/ \E id \in Ids : ExecuteCannedQuery(id) \/ \E pos \in 1 .. Len(favs) : MoveFavoriteTo(id, pos)

Spec == Init /\ [][Next]_vars

-----------------------------------------------------------------------------
(* Properties.                                                             *)

TypeOK ==
  /\ installed \in SUBSET Ids /\ cached \in SUBSET Ids
  /\ phase \in {"starting", "locating", "loaded", "broken"}
  /\ listing \in Listings /\ delayed \in Ids \cup {NoScope}
  /\ Range(favs) \subseteq Ids /\ IsInjective(favs)
  /\ Range(IdsOf(rows)) \subseteq Ids /\ DOMAIN temps \subseteq Ids
  /\ phase # "loaded" /\ phase # "locating" => cached = {}

(* The dash has one row per favourite, in the order of the favourites, and *)
(* GSettings holds them, through listings, changes by others before and    *)
(* after, commands on rows, pages and the overview.  Two things break it:  *)
(* a favourite that a Scope object or the overview's stale list takes for  *)
(* none gets a second row, and one whose metadata is gone gets no row.     *)
RowsAreFavorites ==
  TypeOK /\ (phase = "loaded" /\ ~tangled => ~stuck /\ IdsOf(rows) = favs /\ (~reported => stored = favs))

(* The overview offers every visible scope of the last listing and every   *)
(* listed favourite of that time, none of them twice.                      *)
OverviewShowsEveryScope ==
  phase = "loaded" =>
    LET all == shown.favorites \o shown.other
    IN IsInjective(all) /\ cached \ Invisible \subseteq Range(all) /\ Range(all) \subseteq cached

(* Both lists of scopes a user can see agree with what they are made from: *)
(* the dash with the favourites (scopes.cpp:427-522), the overview with    *)
(* the listing (overviewscope.cpp:65-146).                                 *)
ListsAgree == RowsAreFavorites /\ OverviewShowsEveryScope

(* A canned query for an unknown scope waits for a listing that is on its  *)
(* way, the one it asked for or the one that was in progress, so that it   *)
(* leads to a page or is reported as failed.                               *)
WaitingQueriesAreListed == delayed # NoScope => listing.kind = "refresh"

(* scopes.cpp:441,444: a favourite is dropped because its scope is not     *)
(* installed any more.                                                     *)
OnlyUninstalledAreDropped ==
  [][RefreshFinished => Range(favs) \cap installed \subseteq Range(favs')]_vars
=============================================================================
