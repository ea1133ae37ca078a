--------------------------- MODULE MessageChanges ---------------------------
(***************************************************************************)
(* Edits and deletions of the messages of one group: the rows, the         *)
(* handlers that change them, and the list of messages each member's       *)
(* browser shows.  Events reach a browser in the order they were emitted   *)
(* (EventEnvelope and ChatSync are about that order).                      *)
(***************************************************************************)
EXTENDS Naturals, Sequences, FiniteSets

CONSTANTS
    Member,     \* members of the group
    Message,    \* its messages, loaded in every browser
    AuthorOf,   \* [Message -> Member]
    Moderator,  \* members with the right delete_messages
    Edit,       \* edit requests, each with a content of its own
    Deletion,   \* delete requests
    MaxEdits    \* _MAX_MESSAGE_EDITS

ASSUME ChangeAssumption ==
    /\ AuthorOf \in [Message -> Member]
    /\ Moderator \subseteq Member
    /\ IsFiniteSet(Message) /\ Edit \cap Deletion = {}
    /\ MaxEdits \in Nat

VARIABLES
    row,        \* messages: its content (an edit or "first"), its edit_count
    hidden,     \* message_receipts.deleted_for_user: [Message -> SUBSET Member]
    request,    \* what each edit or deletion is doing
    mail,       \* events on their way to each browser
    shown,      \* state.messages: what each browser lists
    decrypting  \* message_edited handlers that await decryptForDisplay

changeVars == <<row, hidden, request, mail, shown, decrypting>>

NoRow == [content |-> "gone", edits |-> 0]
Hole == [id |-> "hole", content |-> "hole"]   \* an index of the array never written
Modes == {"for_me", "for_both", "for_all"}
Idle == [step |-> "idle"]

Stored(m) == row[m] # NoRow
Content == Edit \cup {"first"}
Entry == [id : Message, content : Content] \cup {Hole}
ChangeEvent == [type : {"message_edited"}, id : Message, content : Edit]
         \cup [type : {"messages_deleted"}, id : Message]

ChangeTypeOK ==
    /\ row \in [Message -> [content : Content \cup {"gone"}, edits : Nat]]
    /\ hidden \in [Message -> SUBSET Member]
    /\ \A r \in Edit \cup Deletion : request[r].step \in {"idle", "checked", "stored", "done"}
    /\ mail \in [Member -> Seq(ChangeEvent)]
    /\ shown \in [Member -> Seq(Entry)]
    /\ \A u \in Member : \A d \in decrypting[u] : d.entry \in Entry /\ d.index \in Nat \ {0}

ChangeInit ==
    /\ row = [m \in Message |-> [content |-> "first", edits |-> 0]]
    /\ hidden = [m \in Message |-> {}]
    /\ request = [r \in Edit \cup Deletion |-> Idle]
    /\ mail = [u \in Member |-> <<>>]
    /\ \E list \in [1..Cardinality(Message) -> Message] :
        /\ \A m \in Message : \E i \in DOMAIN list : list[i] = m
        /\ shown = [u \in Member |->
                        [i \in DOMAIN list |-> [id |-> list[i], content |-> "first"]]]
    /\ decrypting = [u \in Member |-> {}]

Step(r, what) == request' = [request EXCEPT ![r] = what]
Broadcast(event, users) ==
    mail' = [u \in Member |-> IF u \in users THEN Append(mail[u], event) ELSE mail[u]]

-----------------------------------------------------------------------------
(* handle_edit_message_event.                                              *)

CheckEdit(e, m) ==
    /\ request[e] = Idle /\ Stored(m)
    /\ row[m].edits < MaxEdits
    /\ Step(e, [step |-> "checked", id |-> m])
    /\ UNCHANGED <<row, hidden, mail, shown, decrypting>>

(* Broken: writes the row back whether or not it is still there. *)
StoreEditAnyway(e) ==
    /\ request[e].step = "checked"
    /\ LET m == request[e].id IN
        /\ row' = [row EXCEPT ![m] = [content |-> e, edits |-> @.edits + 1]]
        /\ Step(e, [step |-> "stored", id |-> m])
    /\ UNCHANGED <<hidden, mail, shown, decrypting>>

(* The UPDATE names the row again: an edit of a row that is gone is refused. *)
StoreEdit(e) ==
    /\ request[e].step = "checked"
    /\ LET m == request[e].id IN
        IF Stored(m)
        THEN /\ row' = [row EXCEPT ![m] = [content |-> e, edits |-> @.edits + 1]]
             /\ Step(e, [step |-> "stored", id |-> m])
        ELSE /\ Step(e, [step |-> "done"])
             /\ UNCHANGED row
    /\ UNCHANGED <<hidden, mail, shown, decrypting>>

TellEdit(e) ==
    /\ request[e].step = "stored"
    /\ Broadcast([type |-> "message_edited", id |-> request[e].id, content |-> e], Member)
    /\ Step(e, [step |-> "done"])
    /\ UNCHANGED <<row, hidden, shown, decrypting>>

-----------------------------------------------------------------------------
(* handle_delete_messages_event.                                           *)

(* _partition_delete_rows: who may delete a message for the others. *)
MayDelete(u, m, mode) ==
    /\ Stored(m) /\ u \notin hidden[m]
    /\ mode = "for_both" => u = AuthorOf[m] \/ u \in Moderator
    /\ mode = "for_all" => u \in Moderator

CheckDeletion(d, u, m, mode) ==
    /\ request[d] = Idle
    /\ MayDelete(u, m, mode)
    /\ Step(d, [step |-> "checked", id |-> m, by |-> u, mode |-> mode])
    /\ UNCHANGED <<row, hidden, mail, shown, decrypting>>

(* _apply_delete_mutations: a row that is gone by now is not missed. *)
DeleteRow(d) ==
    /\ request[d].step = "checked"
    /\ LET m == request[d].id IN
        IF request[d].mode = "for_me"
        THEN hidden' = [hidden EXCEPT ![m] = @ \cup {request[d].by}] /\ UNCHANGED row
        ELSE row' = [row EXCEPT ![m] = NoRow] /\ UNCHANGED hidden
    /\ Step(d, [request[d] EXCEPT !.step = "stored"])
    /\ UNCHANGED <<mail, shown, decrypting>>

(* A database error, or the worker dies: the rows stay as they are. *)
DeletionFails(d) ==
    /\ request[d].step = "checked"
    /\ Step(d, [step |-> "done"])
    /\ UNCHANGED <<row, hidden, mail, shown, decrypting>>

(* In a group every mode is announced to the chat's room. *)
TellDeletion(d) ==
    /\ request[d].step = "stored"
    /\ Broadcast([type |-> "messages_deleted", id |-> request[d].id], Member)
    /\ Step(d, [step |-> "done"])
    /\ UNCHANGED <<row, hidden, shown, decrypting>>

-----------------------------------------------------------------------------
(* The browser.                                                            *)

IndexOf(u, m) == {i \in DOMAIN shown[u] : shown[u][i].id = m}

(* Assignment to an element of a JavaScript array, which grows if need be. *)
PutAt(list, i, x) ==
    [k \in 1..(IF i > Len(list) THEN i ELSE Len(list)) |->
        IF k = i THEN x ELSE IF k <= Len(list) THEN list[k] ELSE Hole]

\* Array.filter: the k-th entry it keeps has k kept ones up to it.
Without(list, m) ==
    LET kept == {i \in DOMAIN list : list[i].id # m}
        Kth(k) == CHOOSE i \in kept : Cardinality({j \in kept : j <= i}) = k
    IN [k \in 1..Cardinality(kept) |-> list[Kth(k)]]

Next1(u, type) == mail[u] # <<>> /\ Head(mail[u]).type = type
Take(u) == mail' = [mail EXCEPT ![u] = Tail(@)]

(* handleDeleteEvent: the mode of the deletion plays no part. *)
TakeDeletion(u) ==
    /\ Next1(u, "messages_deleted")
    /\ shown' = [shown EXCEPT ![u] = Without(@, Head(mail[u]).id)]
    /\ Take(u)
    /\ UNCHANGED <<row, hidden, request, decrypting>>

(* message_edited: the index is looked up before the content is decrypted. *)
TakeEdit(u) ==
    /\ Next1(u, "message_edited")
    /\ decrypting' = [decrypting EXCEPT ![u] = @ \cup
            {[index |-> i, entry |-> [id |-> Head(mail[u]).id, content |-> Head(mail[u]).content]] :
                i \in IndexOf(u, Head(mail[u]).id)}]
    /\ Take(u)
    /\ UNCHANGED <<row, hidden, request, shown>>

(* The decrypted content is written to that index. *)
ShowEdit(u, d) ==
    /\ d \in decrypting[u]
    /\ shown' = [shown EXCEPT ![u] = PutAt(@, d.index, d.entry)]
    /\ decrypting' = [decrypting EXCEPT ![u] = @ \ {d}]
    /\ UNCHANGED <<row, hidden, request, mail>>

ChangeNext ==
    \/ \E e \in Edit :
        \/ \E m \in Message : CheckEdit(e, m)
        \/ StoreEdit(e) \/ TellEdit(e)
    \/ \E d \in Deletion :
        \/ \E u \in Member, m \in Message, mode \in Modes : CheckDeletion(d, u, m, mode)
        \/ DeleteRow(d) \/ DeletionFails(d) \/ TellDeletion(d)
    \/ \E u \in Member :
        \/ TakeDeletion(u) \/ TakeEdit(u)
        \/ \E d \in decrypting[u] : ShowEdit(u, d)

ChangeSpec == ChangeInit /\ [][ChangeNext]_changeVars

-----------------------------------------------------------------------------
(* A row that was deleted for everybody never comes back, also when an      *)
(* edit was checked before the deletion and is written after it.           *)
DeletedStays == [][\A m \in Message : ~Stored(m) => ~Stored(m)']_changeVars

(* A message leaves a member's screen only when that member deleted it or   *)
(* it was deleted for everybody, which takes its author or a moderator.     *)
ForMeIsForMe ==
    \A u \in Member, m \in Message : Stored(m) /\ u \notin hidden[m] => IndexOf(u, m) # {}

(* Once everything has arrived, no screen shows a deleted message.  Not     *)
(* kept by the code: an edit that was being decrypted is written to the     *)
(* index it looked up before the deletion.                                  *)
DeletedIsGone ==
    ( /\ \A d \in Deletion : request[d].step \in {"idle", "done"}
      /\ \A u \in Member : mail[u] = <<>> /\ decrypting[u] = {} )
    => \A u \in Member, m \in Message : ~Stored(m) => IndexOf(u, m) = {}
=============================================================================
