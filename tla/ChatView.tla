------------------------------ MODULE ChatView ------------------------------
(***************************************************************************)
(* What a tab lists for each chat: opening and closing chats, the load of  *)
(* the history from the local cache and from the server, older pages, and  *)
(* live messages, which are decrypted before they are listed.  Every await *)
(* lets the user open another chat.                                        *)
(***************************************************************************)
EXTENDS Naturals, FiniteSets, FiniteSetsExt

CONSTANTS
    Dialog,     \* the chats of the user
    NoDialog,   \* null
    Note,       \* messages, numbered by their id
    DialogOf,   \* [Note -> Dialog]
    PageSize,   \* messages of a page
    MaxOpens    \* openings and closings of a chat

ASSUME ViewAssumption ==
    /\ NoDialog \notin Dialog
    /\ Note \subseteq Nat /\ IsFiniteSet(Note)
    /\ DialogOf \in [Note -> Dialog]
    /\ PageSize \in Nat \ {0} /\ MaxOpens \in Nat

VARIABLES
    inTable,     \* messages in the database
    delivered,   \* those of them that receive_message brought to this tab
    deciphering, \* receive_message handlers that await
    current,     \* currentChatId
    listed,      \* state.messages of each chat
    initialized, \* state.initialized
    loading,     \* state.isLoadingInitial
    lastFetch,   \* state.historyRequestToken
    fetches,     \* calls of fetchChatHistory that await something
    older,       \* calls of loadOlderMessages that await something
    cached,      \* messages of each chat in IndexedDB
    failed,      \* chats whose last load threw while open: a toast says so,
                 \* unless the cached list was shown
    opens

viewVars == <<inTable, delivered, deciphering, current, listed, initialized, loading,
              lastFetch, fetches, older, cached, failed, opens>>
unseenVars == <<inTable, delivered, deciphering>>

In(c, ids) == {n \in ids : DialogOf[n] = c}

ViewTypeOK ==
    /\ inTable \subseteq Note /\ delivered \subseteq inTable
    /\ deciphering \subseteq [id : Note, open : BOOLEAN]
    /\ current \in Dialog \cup {NoDialog}
    /\ listed \in [Dialog -> SUBSET Note] /\ cached \in [Dialog -> SUBSET Note]
    /\ initialized \in [Dialog -> BOOLEAN] /\ loading \in [Dialog -> BOOLEAN]
    /\ lastFetch \in [Dialog -> 0..MaxOpens] /\ opens \in 0..MaxOpens
    /\ fetches \subseteq [of : Dialog, token : 1..MaxOpens,
                          at : {"cache", "decode_cache", "render", "request", "bars", "decode"},
                          delta : BOOLEAN, page : SUBSET Note]
    /\ older \subseteq [of : Dialog, at : {"request", "decode"}, page : SUBSET Note]
    /\ failed \subseteq Dialog

ViewInit ==
    /\ inTable \in SUBSET Note /\ delivered = inTable /\ deciphering = {}
    /\ current = NoDialog
    /\ listed = [c \in Dialog |-> {}]
    /\ initialized = [c \in Dialog |-> FALSE] /\ loading = [c \in Dialog |-> FALSE]
    /\ lastFetch = [c \in Dialog |-> 0] /\ fetches = {} /\ older = {}
    /\ cached \in {[c \in Dialog |-> {}], [c \in Dialog |-> In(c, inTable)]}
    /\ failed = {} /\ opens = 0

(* The newest messages of a chat in ids. *)
Newest(c, ids) ==
    {n \in In(c, ids) : Cardinality({m \in In(c, ids) : m > n}) < PageSize}

-----------------------------------------------------------------------------
(* activateContactItem and closeChatUI: the requests of the chat that is    *)
(* left are aborted, which ends their functions before anything else runs.  *)
Aborted(c) == {f \in fetches : f.of = c /\ f.at = "request"}
LeaveDialog(c) ==
    /\ older' = {o \in older : ~(o.of = c /\ o.at = "request")}
    /\ loading' = [d \in Dialog |-> loading[d] /\ ~(\E f \in Aborted(c) : d = c /\ f.token = lastFetch[d])]

(* Broken: a load of any chat keeps the others from being loaded. *)
OpenDialogGlobal(c) ==
    LET left == IF c = current THEN NoDialog ELSE current
        fetch == [of |-> c, token |-> lastFetch[c] + 1, at |-> "cache", delta |-> FALSE, page |-> {}]
        loads == \A d \in Dialog : ~loading'[d]
    IN
    /\ opens < MaxOpens /\ opens' = opens + 1
    /\ current' = c
    /\ LeaveDialog(left)
    /\ lastFetch' = [lastFetch EXCEPT ![c] = IF loads THEN @ + 1 ELSE @]
    /\ fetches' = (fetches \ Aborted(left)) \cup (IF loads /\ ~initialized[c] THEN {fetch} ELSE {})
    /\ failed' = failed \ {c}
    /\ UNCHANGED <<unseenVars, listed, initialized, cached>>

OpenDialog(c) ==
    LET left == IF c = current THEN NoDialog ELSE current
        fetch == [of |-> c, token |-> lastFetch[c] + 1, at |-> "cache", delta |-> FALSE, page |-> {}]
    IN
    /\ opens < MaxOpens /\ opens' = opens + 1
    /\ current' = c
    /\ LeaveDialog(left)
    /\ lastFetch' = [lastFetch EXCEPT ![c] = IF loading[c] THEN @ ELSE @ + 1]
    /\ fetches' = (fetches \ Aborted(left)) \cup
                  (IF loading[c] \/ initialized[c] THEN {} ELSE {fetch})
    /\ failed' = IF loading[c] THEN failed ELSE failed \ {c}
    /\ UNCHANGED <<unseenVars, listed, initialized, cached>>

CloseDialog ==
    /\ current # NoDialog /\ opens < MaxOpens /\ opens' = opens + 1
    /\ current' = NoDialog
    /\ LeaveDialog(current)
    /\ fetches' = fetches \ Aborted(current)
    /\ UNCHANGED <<unseenVars, listed, initialized, lastFetch, cached, failed>>

-----------------------------------------------------------------------------
(* fetchChatHistory, from one await to the next.                           *)

Latest(f) == f.token = lastFetch[f.of]
Shown(f) == f.of = current
Continue(f, g) == fetches' = (fetches \ {f}) \cup {g}

(* return; the finally block when the request had been begun. *)
FinishFetch(f) ==
    /\ fetches' = fetches \ {f}
    /\ loading' = IF f.at \in {"request", "bars", "decode"} /\ Latest(f)
                  THEN [loading EXCEPT ![f.of] = FALSE] ELSE loading

(* isLoadingInitial is set, and a message already listed makes it a request *)
(* for what came after it, unless the list is the cached one.               *)
BeginRequest(f) ==
    IF Latest(f) /\ Shown(f)
    THEN /\ Continue(f, [f EXCEPT !.at = "request",
                                  !.delta = f.at = "cache" /\ listed[f.of] # {}])
         /\ loading' = [loading EXCEPT ![f.of] = TRUE]
    ELSE FinishFetch(f)

CacheRead(f) ==
    /\ f.at = "cache"
    /\ IF cached[f.of] # {} /\ Latest(f) /\ Shown(f)
       THEN /\ Continue(f, [f EXCEPT !.at = "decode_cache", !.page = cached[f.of]])
            /\ UNCHANGED loading
       ELSE BeginRequest(f)
    /\ UNCHANGED <<listed, initialized, cached, failed>>

CacheDecoded(f) ==
    /\ f.at = "decode_cache"
    /\ IF Latest(f) /\ Shown(f)
       THEN /\ listed' = [listed EXCEPT ![f.of] = f.page]
            /\ initialized' = [initialized EXCEPT ![f.of] = TRUE]
            /\ Continue(f, [f EXCEPT !.at = "render"])
            /\ UNCHANGED loading
       ELSE FinishFetch(f) /\ UNCHANGED <<listed, initialized>>
    /\ UNCHANGED <<cached, failed>>

CacheRendered(f) ==
    /\ f.at = "render"
    /\ BeginRequest(f)
    /\ UNCHANGED <<listed, initialized, cached, failed>>

PageFor(f) ==
    IF f.delta THEN {n \in In(f.of, inTable) : n > Max(listed[f.of])} ELSE Newest(f.of, inTable)

Answered(f) ==
    /\ f.at = "request"
    /\ IF Latest(f) /\ Shown(f)
       THEN Continue(f, [f EXCEPT !.at = "bars", !.page = PageFor(f)]) /\ UNCHANGED loading
       ELSE FinishFetch(f)
    /\ UNCHANGED <<listed, initialized, cached, failed>>

(* The pinned and favourite messages are decrypted before the others. *)
BarsRestored(f) ==
    /\ f.at = "bars"
    /\ Continue(f, [f EXCEPT !.at = "decode"])
    /\ initialized' = [initialized EXCEPT ![f.of] = @ \/ f.delta]
    /\ UNCHANGED <<listed, loading, cached, failed>>

(* The page takes the place of the list, or is added to it. *)
PageDecoded(f) ==
    /\ f.at = "decode"
    /\ IF Latest(f) /\ (f.delta => Shown(f))
       THEN /\ listed' = [listed EXCEPT ![f.of] = IF f.delta THEN @ \cup f.page ELSE f.page]
            /\ initialized' = [initialized EXCEPT ![f.of] = TRUE]
            /\ cached' = [cached EXCEPT ![f.of] = IF f.delta THEN @ \cup f.page ELSE f.page]
       ELSE UNCHANGED <<listed, initialized, cached>>
    /\ FinishFetch(f)
    /\ UNCHANGED failed

(* Any of the awaits may throw: the catch block, or that of the caller when *)
(* the request had not been begun, tells of it.                              *)
FetchFails(f) ==
    /\ FinishFetch(f)
    /\ failed' = IF Shown(f) /\ Latest(f) THEN failed \cup {f.of} ELSE failed
    /\ UNCHANGED <<listed, initialized, cached>>

Fetching ==
    /\ \E f \in fetches :
        \/ CacheRead(f) \/ CacheDecoded(f) \/ CacheRendered(f)
        \/ Answered(f) \/ BarsRestored(f) \/ PageDecoded(f) \/ FetchFails(f)
    /\ UNCHANGED <<unseenVars, current, lastFetch, older, opens>>

-----------------------------------------------------------------------------
(* loadOlderMessages, one at a time for each chat. *)
LoadOlder ==
    /\ current # NoDialog /\ initialized[current] /\ ~loading[current]
    /\ listed[current] # {} /\ \A o \in older : o.of # current
    /\ older' = older \cup {[of |-> current, at |-> "request",
                page |-> Newest(current, {n \in inTable : n < Min(listed[current])})]}
    /\ UNCHANGED <<unseenVars, current, listed, initialized, loading, lastFetch, fetches,
                   cached, failed, opens>>

OlderAnswered(o) ==
    /\ o.at = "request"
    /\ older' = (older \ {o}) \cup
                (IF o.of = current /\ o.page # {} THEN {[o EXCEPT !.at = "decode"]} ELSE {})
    /\ UNCHANGED <<unseenVars, current, listed, initialized, loading, lastFetch, fetches,
                   cached, failed, opens>>

OlderDecoded(o) ==
    /\ o.at = "decode"
    /\ older' = older \ {o}
    /\ listed' = [listed EXCEPT ![o.of] = @ \cup o.page]
    /\ cached' = [cached EXCEPT ![o.of] = @ \cup o.page]
    /\ UNCHANGED <<unseenVars, current, initialized, loading, lastFetch, fetches, failed, opens>>

-----------------------------------------------------------------------------
(* Live messages. *)
StoreNote(n) ==
    /\ n \notin inTable /\ \A m \in inTable : m < n
    /\ inTable' = inTable \cup {n}
    /\ UNCHANGED <<delivered, deciphering, current, listed, initialized, loading,
                   lastFetch, fetches, older, cached, failed, opens>>

(* receive_message: whether the chat is the open one is asked here ... *)
ReceiveNote(n) ==
    /\ n \in inTable \ delivered
    /\ delivered' = delivered \cup {n}
    /\ deciphering' = deciphering \cup {[id |-> n, open |-> DialogOf[n] = current]}
    /\ cached' = [cached EXCEPT ![DialogOf[n]] = @ \cup {n}]
    /\ UNCHANGED <<inTable, current, listed, initialized, loading, lastFetch, fetches,
                   older, failed, opens>>

List(c, n) == listed' = [listed EXCEPT ![c] = @ \cup {n}]

(* ... and appendMessage, after the message was decrypted, lists it in the  *)
(* chat that is open then.                                                   *)
NoteDeciphered(d) ==
    /\ d \in deciphering
    /\ deciphering' = deciphering \ {d}
    /\ \/ d.open /\ current # NoDialog /\ List(current, d.id)
       \/ ~d.open /\ initialized[DialogOf[d.id]] /\ List(DialogOf[d.id], d.id)
       \/ /\ IF d.open THEN current = NoDialog ELSE ~initialized[DialogOf[d.id]]
          /\ UNCHANGED listed
    /\ UNCHANGED <<inTable, delivered, current, initialized, loading, lastFetch, fetches,
                   older, cached, failed, opens>>

ViewNext ==
    \/ \E c \in Dialog : OpenDialog(c)
    \/ CloseDialog \/ Fetching \/ LoadOlder
    \/ \E o \in older : OlderAnswered(o) \/ OlderDecoded(o)
    \/ \E n \in Note : StoreNote(n) \/ ReceiveNote(n)
    \/ \E d \in deciphering : NoteDeciphered(d)

ViewSpec == ViewInit /\ [][ViewNext]_viewVars

-----------------------------------------------------------------------------
(* An open chat gets its history however fast the user changes chats: as    *)
(* long as it is not loaded, a load that is not out of date is under way,   *)
(* or its failure was reported.                                             *)
OpenDialogLoads ==
    current # NoDialog /\ ~initialized[current] =>
        \/ \E f \in fetches : Shown(f) /\ Latest(f)
        \/ current \in failed

(* "per-chat state store": the list of a chat holds messages of that chat.  *)
OwnMessages == \A c \in Dialog : \A n \in listed[c] : DialogOf[n] = c

(* A message that is listed stays listed: nobody deletes one here.  Not     *)
(* kept by the code: the first page takes the place of a message that       *)
(* arrived while the page was being decoded.                                *)
ListedStays == [][\A c \in Dialog : listed[c] \subseteq listed'[c]]_viewVars
=============================================================================
