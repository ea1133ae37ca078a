------------------------------ MODULE Presence ------------------------------
(***************************************************************************)
(* The tabs of one user and the presence store that counts them: connect,  *)
(* activity reports, disconnect and the grace period after the last tab.   *)
(* Each set of the store holds socket ids; an id counts while a key of its *)
(* own lives.  What adds an id is one script or one transaction.  What     *)
(* counts, _prune_redis_set, is five commands: read the members, ask for   *)
(* their keys, remove those without one, count, and delete the set if none *)
(* was left.  Others run between any two of them.                          *)
(***************************************************************************)
EXTENDS Naturals, FiniteSets

CONSTANTS
    Tab,        \* socket ids, each used once
    MaxTabs,    \* max_connections_per_user
    CrashLimit, \* workers that may die with their tabs
    LateLimit   \* commands of prunes that are under way at once

ASSUME TabAssumption ==
    MaxTabs \in Nat /\ MaxTabs > 0 /\ CrashLimit \in Nat /\ LateLimit \in Nat
ASSUME TabsAreFinite == IsFiniteSet(Tab)

VARIABLES
    socket,     \* "new", "open", or "closed"
    connected,  \* presence:conn: the ids counted as connected
    active,     \* presence:act: the ids counted as visible
    emptying,   \* sets that a prune counted as empty and is about to delete
    strays,     \* <<set, id>> that a prune found without a key and will remove
    report,     \* the activity_update in progress of each tab
    leaving,    \* the disconnect handler of each tab, and the task it starts
    ended,      \* terminate_calls ran since a tab was last opened
    crashes,    \* workers that died
    swept       \* history: ids with a key that a prune took out of connected

storeVars == <<connected, active, emptying, strays, swept>>
presenceVars ==
    <<socket, connected, active, emptying, strays, report, leaving, ended,
      crashes, swept>>

Open == {t \in Tab : socket[t] = "open"}
StoredSet == {"conn", "act"}
Members(set) == IF set = "conn" THEN connected ELSE active

PresenceTypeOK ==
    /\ socket \in [Tab -> {"new", "open", "closed"}]
    /\ connected \subseteq Tab
    /\ active \subseteq Tab
    /\ emptying \subseteq StoredSet
    /\ strays \subseteq StoredSet \X Tab
    /\ report \in [Tab -> {"none", "visible", "hidden"}]
    /\ leaving \in [Tab -> {"none", "begun", "removed", "readded", "empty",
                            "asleep", "ending", "terminating", "done"}]
    /\ ended \in BOOLEAN
    /\ crashes \in 0..CrashLimit
    /\ swept \subseteq Tab

PresenceInit ==
    /\ socket = [t \in Tab |-> "new"]
    /\ connected = {}
    /\ active = {}
    /\ emptying = {}
    /\ strays = {}
    /\ report = [t \in Tab |-> "none"]
    /\ leaving = [t \in Tab |-> "none"]
    /\ ended = TRUE
    /\ crashes = 0
    /\ swept = {}

-----------------------------------------------------------------------------
(* The store.                                                              *)

AddConnected(t) ==
    /\ connected' = connected \cup {t}
    /\ UNCHANGED <<active, emptying, strays, swept>>

Late == Cardinality(emptying) + Cardinality(strays)

(* A prune that read a member before its key went, and asks for the key now, *)
(* is going to remove it, whoever adds it again meanwhile.                   *)
KeyGone(t, sets) ==
    \/ UNCHANGED strays
    \/ \E set \in sets :
        /\ t \in Members(set) /\ Late < LateLimit
        /\ strays' = strays \cup {<<set, t>>}

(* The transaction of remove_connected; the prunes after it are PruneEmpty *)
(* and those that follow.                                                  *)
RemoveConnected(t) ==
    /\ connected' = connected \ {t}
    /\ active' = active \ {t}
    /\ KeyGone(t, StoredSet)
    /\ UNCHANGED <<emptying, swept>>

(* Broken: reports an active tab without counting it as connected. *)
AddActiveOnly(t) ==
    /\ connected' = connected
    /\ active' = active \cup {t}
    /\ UNCHANGED <<emptying, strays, swept>>

AddActive(t) ==
    /\ connected' = connected \cup {t}
    /\ active' = active \cup {t}
    /\ UNCHANGED <<emptying, strays, swept>>

(* The transaction of remove_active: hiding a tab also renews its entry     *)
(* among the connected ones.                                                *)
RemoveActive(t) ==
    /\ connected' = connected \cup {t}
    /\ active' = active \ {t}
    /\ KeyGone(t, {"act"})
    /\ UNCHANGED <<emptying, swept>>

(* An entry of a tab that is gone ends with its key's lifetime. The keys of *)
(* an open tab are renewed by its heartbeat every minute.                   *)
ExpireEntry(t) ==
    /\ socket[t] = "closed" /\ t \in connected \cup active
    /\ connected' = connected \ {t}
    /\ active' = active \ {t}
    /\ KeyGone(t, StoredSet)
    /\ UNCHANGED <<socket, emptying, report, leaving, ended, crashes, swept>>

-----------------------------------------------------------------------------
(* _prune_redis_set, in the worker of whoever counts: a handler of this     *)
(* user's tabs, a sender's handler (count_connected of the receiver), a      *)
(* list that shows who is online (count_active).                             *)

(* SCARD was 0. *)
PruneEmpty(set) ==
    /\ set \notin emptying /\ Members(set) = {} /\ Late < LateLimit
    /\ emptying' = emptying \cup {set}
    /\ UNCHANGED <<socket, connected, active, strays, report, leaving, ended,
                   crashes, swept>>

DeleteConnected == connected' = {} /\ swept' = swept \cup connected

(* DELETE; another prune that counted the same may still have its own to send. *)
PruneDeletes(set) ==
    /\ set \in emptying
    /\ IF set = "conn" THEN DeleteConnected /\ UNCHANGED active
                       ELSE active' = {} /\ UNCHANGED <<connected, swept>>
    /\ emptying' \in {emptying, emptying \ {set}}
    /\ UNCHANGED <<socket, strays, report, leaving, ended, crashes>>

(* SREM of an id that had no key when it was asked for. *)
PruneRemoves(set, t) ==
    /\ <<set, t>> \in strays
    /\ IF set = "conn"
       THEN /\ connected' = connected \ {t}
            /\ swept' = swept \cup (connected \cap {t})
            /\ UNCHANGED active
       ELSE active' = active \ {t} /\ UNCHANGED <<connected, swept>>
    /\ strays' \in {strays, strays \ {<<set, t>>}}
    /\ UNCHANGED <<socket, emptying, report, leaving, ended, crashes>>

-----------------------------------------------------------------------------
(* handle_connect_event.                                                   *)

(* Broken: limits the visible tabs instead of the connected ones. *)
ConnectByActive(t) ==
    /\ socket[t] = "new"
    /\ Cardinality(active) < MaxTabs
    /\ AddConnected(t)
    /\ socket' = [socket EXCEPT ![t] = "open"]
    /\ ended' = FALSE
    /\ UNCHANGED <<report, leaving, crashes>>

Connect(t) ==
    /\ socket[t] = "new"
    /\ Cardinality(connected) < MaxTabs
    /\ AddConnected(t)
    /\ socket' = [socket EXCEPT ![t] = "open"]
    /\ ended' = FALSE
    /\ UNCHANGED <<report, leaving, crashes>>

-----------------------------------------------------------------------------
(* handle_activity_update_event: a visible or hidden tab, or its heartbeat. *)

(* The handler has counted the visible tabs and is about to change the store; *)
(* what it then finds and writes to users.is_online is left out.              *)
BeginReport(t, state) ==
    /\ socket[t] = "open" /\ report[t] = "none"
    /\ report' = [report EXCEPT ![t] = state]
    /\ UNCHANGED <<storeVars, socket, leaving, ended, crashes>>

StoreReport(t) ==
    /\ \/ report[t] = "visible" /\ AddActive(t)
       \/ report[t] = "hidden" /\ RemoveActive(t)
    /\ report' = [report EXCEPT ![t] = "none"]
    /\ UNCHANGED <<socket, leaving, ended, crashes>>

-----------------------------------------------------------------------------
(* handle_disconnect_event, and the sleeping cleanup it may start.         *)

Disconnect(t) ==
    /\ socket[t] = "open"
    /\ socket' = [socket EXCEPT ![t] = "closed"]
    /\ leaving' = [leaving EXCEPT ![t] = "begun"]
    /\ UNCHANGED <<storeVars, report, ended, crashes>>

DropConnected(t) ==
    /\ leaving[t] = "begun"
    /\ RemoveConnected(t)
    /\ leaving' = [leaving EXCEPT ![t] = "removed"]
    /\ UNCHANGED <<socket, report, ended, crashes>>

DropActive(t) ==
    /\ leaving[t] = "removed"
    /\ RemoveActive(t)
    /\ leaving' = [leaving EXCEPT ![t] = "readded"]
    /\ UNCHANGED <<socket, report, ended, crashes>>

(* count_connected up to SCARD, in the handler and after the sleep of      *)
(* _terminate_calls_after_disconnect_grace: when none is left, it deletes   *)
(* the set before it goes on.                                              *)
CountTabs(t) ==
    /\ leaving[t] = "readded"
    /\ leaving' = [leaving EXCEPT ![t] = IF connected = {} THEN "empty" ELSE "done"]
    /\ UNCHANGED <<storeVars, socket, report, ended, crashes>>

GraceEnds(t) ==
    /\ leaving[t] = "asleep"
    /\ leaving' = [leaving EXCEPT ![t] = IF connected = {} THEN "ending" ELSE "done"]
    /\ UNCHANGED <<storeVars, socket, report, ended, crashes>>

(* The DELETE of either count. *)
DeleteEmpty(t) ==
    /\ leaving[t] \in {"empty", "ending"}
    /\ DeleteConnected
    /\ leaving' = [leaving EXCEPT ![t] = IF @ = "empty" THEN "asleep"
                                                       ELSE "terminating"]
    /\ UNCHANGED <<socket, active, emptying, strays, report, ended, crashes>>

(* terminate_calls_func. *)
Terminate(t) ==
    /\ leaving[t] = "terminating"
    /\ leaving' = [leaving EXCEPT ![t] = "done"]
    /\ ended' = TRUE
    /\ UNCHANGED <<storeVars, socket, report, crashes>>

(* A worker dies with one of its tabs, or in a handler or task of one that  *)
(* closed: nothing of it runs any more, the entries stay.                   *)
WorkerDies(t) ==
    /\ crashes < CrashLimit
    /\ socket[t] = "open" \/ leaving[t] \notin {"none", "done"}
    /\ crashes' = crashes + 1
    /\ socket' = [socket EXCEPT ![t] = "closed"]
    /\ report' = [report EXCEPT ![t] = "none"]
    /\ leaving' = [leaving EXCEPT ![t] = "done"]
    /\ UNCHANGED <<storeVars, ended>>

PresenceNext ==
    \/ \E t \in Tab :
        \/ Connect(t) \/ StoreReport(t)
        \/ \E state \in {"visible", "hidden"} : BeginReport(t, state)
        \/ Disconnect(t) \/ DropConnected(t) \/ DropActive(t) \/ CountTabs(t)
        \/ GraceEnds(t) \/ DeleteEmpty(t) \/ Terminate(t)
        \/ ExpireEntry(t) \/ WorkerDies(t)
    \/ \E set \in StoredSet :
        \/ PruneEmpty(set) \/ PruneDeletes(set)
        \/ \E t \in Tab : PruneRemoves(set, t)

PresenceSpec == PresenceInit /\ [][PresenceNext]_presenceVars

-----------------------------------------------------------------------------
(* The sockets a user has open beyond max_connections_per_user are at most *)
(* those whose entry a prune's late command took away, whatever else the   *)
(* handlers of other tabs, expiring keys and dead workers do to the store  *)
(* between the count of a tab and its connection.  Without "swept" this is *)
(* not so: a prune counts none, tabs add themselves, its DELETE takes them *)
(* out, and as many may connect again.                                     *)
TabCap == Cardinality(Open \ swept) <= MaxTabs

(* A visible tab is a connected tab: online status (count_active) does not *)
(* say yes where delivery, push and the call cleanup (count_connected) say *)
(* no, with late activity reports, expiring keys and dead workers; but for *)
(* a tab that a prune's late command took out of one set and not the other *)
(* (until its next report adds it again).                                  *)
VisibleIsConnected == active \ swept \subseteq connected

(* "When the user's very last tab/device closes, end any call they are     *)
(* still in": once every tab is closed and every handler and cleanup is    *)
(* over, terminate_calls has run.                                          *)
LastTabEndsCalls ==
    ( /\ Open = {}
      /\ \A t \in Tab : leaving[t] \in {"none", "done"} /\ report[t] = "none" )
    => ended
=============================================================================
