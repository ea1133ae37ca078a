-------------------------- MODULE NegotiationProofs --------------------------
(***************************************************************************)
(* For any number of offers, losses and reconnects: when both sides of a   *)
(* call believe that they have agreed, they have agreed on the same offer, *)
(* if the digests of one side end in the order in which they were begun.   *)
(*                                                                         *)
(* SameExchange says nothing of an exchange that is under way, so it is    *)
(* far from inductive.  The invariant follows the caller's pending offer   *)
(* (the call) and the callee's (the bid) from the digest before they are   *)
(* sent to the digest after they are answered: each is in one place only,  *)
(* and what an answer is an answer to is still pending where it arrives    *)
(* (OneCall, OneBid).  It also lists what the chains, digests and messages *)
(* of the two sides can hold at all (CallerShape, CalleeShape, MailShape). *)
(* A step then has to be followed from one place to the next, one lemma    *)
(* per operation and side.                                                 *)
(***************************************************************************)
EXTENDS Negotiation, SequenceTheorems, TLAPS

-----------------------------------------------------------------------------
(* Short sequences, written out. *)

(* The parts of the mail of the caller hold one message at most. *)
Short(s) == s = <<>> \/ \E a : s = <<a>>

LEMMA OneLong == \A a : /\ <<a>> # <<>> /\ Head(<<a>>) = a /\ Tail(<<a>>) = <<>>
                        /\ Append(<<>>, a) = <<a>>
OBVIOUS

LEMMA AppendTwo == \A a, b : Append(<<a>>, b) = <<a, b>>
<1> SUFFICES ASSUME NEW a, NEW b PROVE Append(<<a>>, b) = <<a, b>>
  OBVIOUS
<1> DEFINE s == Append(<<a>>, b) t == <<a, b>>
<1>1. /\ <<a>> \in Seq({a, b}) /\ Len(<<a>>) = 1 /\ <<a>>[1] = a
      /\ t \in Seq({a, b}) /\ Len(t) = 2 /\ t[1] = a /\ t[2] = b
  OBVIOUS
<1>2. s \in Seq({a, b}) /\ Len(s) = 2 /\ s[1] = a /\ s[2] = b
  BY <1>1
<1> HIDE DEF s, t
<1>3. \A i \in 1..2 : s[i] = t[i]
  BY <1>1, <1>2
<1>4. s = t
  BY <1>1, <1>2, <1>3, SeqEqual
<1> QED
  BY <1>4 DEF s, t

LEMMA TwoLong == \A a, b : /\ <<a, b>> # <<>> /\ Head(<<a, b>>) = a /\ Tail(<<a, b>>) = <<b>>
                           /\ Append(<<a>>, b) = <<a, b>>
<1>1. \A a, b : <<a, b>> # <<>> /\ Head(<<a, b>>) = a /\ Tail(<<a, b>>) = <<b>>
  OBVIOUS
<1> QED
  BY <1>1, AppendTwo

LEMMA AppendThree == \A a, b, c : Append(<<a, b>>, c) = <<a, b, c>>
<1> SUFFICES ASSUME NEW a, NEW b, NEW c PROVE Append(<<a, b>>, c) = <<a, b, c>>
  OBVIOUS
<1> DEFINE s == Append(<<a, b>>, c) t == <<a, b, c>>
<1>1. /\ <<a, b>> \in Seq({a, b, c}) /\ Len(<<a, b>>) = 2 /\ <<a, b>>[1] = a /\ <<a, b>>[2] = b
      /\ t \in Seq({a, b, c}) /\ Len(t) = 3 /\ t[1] = a /\ t[2] = b /\ t[3] = c
  OBVIOUS
<1>2. s \in Seq({a, b, c}) /\ Len(s) = 3 /\ s[1] = a /\ s[2] = b /\ s[3] = c
  BY <1>1
<1> HIDE DEF s, t
<1>3. \A i \in 1..3 : s[i] = t[i]
  BY <1>1, <1>2
<1>4. s = t
  BY <1>1, <1>2, <1>3, SeqEqual
<1> QED
  BY <1>4 DEF s, t

LEMMA ThreeLong ==
  ASSUME NEW a, NEW b, NEW c
  PROVE  /\ <<a, b, c>> # <<>> /\ Head(<<a, b, c>>) = a
         /\ Tail(<<a, b, c>>) = <<b, c>>
         /\ Append(<<a, b>>, c) = <<a, b, c>>
<1>1. <<a, b, c>> # <<>> /\ Head(<<a, b, c>>) = a
  OBVIOUS
<1>2. Tail(<<a, b, c>>) = <<b, c>>
  OBVIOUS
<1>3. Append(<<a, b>>, c) = <<a, b, c>>
  BY AppendThree
<1> QED
  BY <1>1, <1>2, <1>3

LEMMA Joins ==
  ASSUME NEW x, NEW y, NEW z
  PROVE  /\ <<>> \o <<>> \o <<>> = <<>>
         /\ <<x>> \o <<>> \o <<>> = <<x>>
         /\ <<>> \o <<x>> \o <<>> = <<x>>
         /\ <<>> \o <<>> \o <<x>> = <<x>>
         /\ <<x>> \o <<y>> \o <<>> = <<x, y>>
         /\ <<x>> \o <<>> \o <<y>> = <<x, y>>
         /\ <<>> \o <<x>> \o <<y>> = <<x, y>>
         /\ <<x>> \o <<y>> \o <<z>> = <<x, y, z>>
<1>1. /\ <<x>> \in Seq({x, y, z}) /\ <<y>> \in Seq({x, y, z}) /\ <<x, y>> \in Seq({x, y, z})
      /\ <<>> \in Seq({x, y, z})
  OBVIOUS
<1>2. <<x>> \o <<y>> = Append(<<x>>, y) /\ <<x, y>> \o <<z>> = Append(<<x, y>>, z)
  BY <1>1, AppendIsConcat
<1>3. <<x>> \o <<y>> = <<x, y>> /\ <<x, y>> \o <<z>> = <<x, y, z>>
  BY <1>2, AppendTwo, AppendThree
<1>4. /\ <<>> \o <<>> = <<>> /\ <<x>> \o <<>> = <<x>> /\ <<>> \o <<x>> = <<x>>
      /\ <<x, y>> \o <<>> = <<x, y>>
  BY <1>1, ConcatEmptySeq
<1> QED
  BY <1>3, <1>4

(* Reading and extending the three parts of a mail. *)
LEMMA Joined ==
  ASSUME NEW o, NEW b, NEW d, Short(o), Short(b), Short(d)
  PROVE  /\ o # <<>> =>
              /\ o \o b \o d # <<>> /\ Head(o \o b \o d) = Head(o)
              /\ Tail(o \o b \o d) = <<>> \o b \o d
         /\ o = <<>> /\ b # <<>> =>
              /\ o \o b \o d # <<>> /\ Head(o \o b \o d) = Head(b)
              /\ Tail(o \o b \o d) = <<>> \o <<>> \o d
         /\ o = <<>> /\ b = <<>> /\ d # <<>> =>
              /\ o \o b \o d # <<>> /\ Head(o \o b \o d) = Head(d)
              /\ Tail(o \o b \o d) = <<>> \o <<>> \o <<>>
         /\ o = <<>> /\ b = <<>> /\ d = <<>> => o \o b \o d = <<>>
         /\ d = <<>> => \A e : Append(o \o b \o d, e) = o \o b \o <<e>>
         /\ b = <<>> /\ d = <<>> => \A e : Append(o \o b \o d, e) = o \o <<e>> \o <<>>
         /\ o = <<>> /\ b = <<>> /\ d = <<>> => \A e : Append(o \o b \o d, e) = <<e>> \o <<>> \o <<>>
         /\ o = <<>> /\ b = <<>> => d \o b \o o = o \o b \o d
<1>1. CASE o = <<>> /\ b = <<>> /\ d = <<>>
  <2>1. o \o b \o d = <<>>
    BY <1>1, Joins
  <2> QED
    BY <1>1, <2>1, Joins, OneLong, TwoLong, ThreeLong
<1>2. CASE o = <<>> /\ b = <<>> /\ d # <<>>
  <2>1. PICK z : d = <<z>>
    BY <1>2 DEF Short
  <2>2. o \o b \o d = <<z>> /\ <<>> \o <<>> \o <<>> = <<>>
    BY <1>2, <2>1, Joins
  <2> QED
    BY <1>2, <2>1, <2>2, Joins, OneLong, TwoLong, ThreeLong
<1>3. CASE o = <<>> /\ b # <<>> /\ d = <<>>
  <2>1. PICK y : b = <<y>>
    BY <1>3 DEF Short
  <2>2. o \o b \o d = <<y>> /\ <<>> \o <<>> \o d = <<>>
    BY <1>3, <2>1, Joins
  <2> QED
    BY <1>3, <2>1, <2>2, Joins, OneLong, TwoLong, ThreeLong
<1>4. CASE o = <<>> /\ b # <<>> /\ d # <<>>
  <2>1. PICK y : b = <<y>>
    BY <1>4 DEF Short
  <2>2. PICK z : d = <<z>>
    BY <1>4 DEF Short
  <2>3. o \o b \o d = <<y, z>> /\ <<>> \o <<>> \o d = <<z>>
    BY <1>4, <2>1, <2>2, Joins
  <2>4. <<y, z>> # <<>> /\ Head(<<y, z>>) = y /\ Tail(<<y, z>>) = <<z>> /\ Head(b) = y
    BY <2>1, <2>2, OneLong, TwoLong, ThreeLong
  <2>5. d = <<>> => \A e : Append(o \o b \o d, e) = o \o b \o <<e>>
    BY <1>4, <2>1, <2>2, <2>3, Joins, OneLong, TwoLong, ThreeLong
  <2> QED
    BY <1>4, <2>3, <2>4, <2>5
<1>5. CASE o # <<>> /\ b = <<>> /\ d = <<>>
  <2>1. PICK x : o = <<x>>
    BY <1>5 DEF Short
  <2>2. o \o b \o d = <<x>> /\ <<>> \o b \o d = <<>>
    BY <1>5, <2>1, Joins
  <2> QED
    BY <1>5, <2>1, <2>2, Joins, OneLong, TwoLong, ThreeLong
<1>6. CASE o # <<>> /\ b = <<>> /\ d # <<>>
  <2>1. PICK x : o = <<x>>
    BY <1>6 DEF Short
  <2>2. PICK z : d = <<z>>
    BY <1>6 DEF Short
  <2>3. o \o b \o d = <<x, z>> /\ <<>> \o b \o d = <<z>>
    BY <1>6, <2>1, <2>2, Joins
  <2>4. <<x, z>> # <<>> /\ Head(<<x, z>>) = x /\ Tail(<<x, z>>) = <<z>> /\ Head(o) = x
    BY <2>1, <2>2, OneLong, TwoLong, ThreeLong
  <2>5. d = <<>> => \A e : Append(o \o b \o d, e) = o \o b \o <<e>>
    BY <1>6, <2>1, <2>2, <2>3, Joins, OneLong, TwoLong, ThreeLong
  <2> QED
    BY <1>6, <2>3, <2>4, <2>5
<1>7. CASE o # <<>> /\ b # <<>> /\ d = <<>>
  <2>1. PICK x : o = <<x>>
    BY <1>7 DEF Short
  <2>2. PICK y : b = <<y>>
    BY <1>7 DEF Short
  <2>3. o \o b \o d = <<x, y>> /\ <<>> \o b \o d = <<y>>
    BY <1>7, <2>1, <2>2, Joins
  <2>4. <<x, y>> # <<>> /\ Head(<<x, y>>) = x /\ Tail(<<x, y>>) = <<y>> /\ Head(o) = x
    BY <2>1, <2>2, OneLong, TwoLong, ThreeLong
  <2>5. ASSUME NEW e PROVE Append(o \o b \o d, e) = o \o b \o <<e>>
    <3>1. Append(<<x, y>>, e) = <<x, y, e>>
      BY AppendThree
    <3>2. <<x>> \o <<y>> \o <<e>> = <<x, y, e>>
      BY Joins
    <3> QED
      BY <2>1, <2>2, <2>3, <3>1, <3>2
  <2> QED
    BY <1>7, <2>3, <2>4, <2>5
<1>8. CASE o # <<>> /\ b # <<>> /\ d # <<>>
  <2>1. PICK x : o = <<x>>
    BY <1>8 DEF Short
  <2>2. PICK y : b = <<y>>
    BY <1>8 DEF Short
  <2>3. PICK z : d = <<z>>
    BY <1>8 DEF Short
  <2>4. o \o b \o d = <<x, y, z>> /\ <<>> \o b \o d = <<y, z>>
    BY <1>8, <2>1, <2>2, <2>3, Joins
  <2>5. <<x, y, z>> # <<>> /\ Head(<<x, y, z>>) = x /\ Tail(<<x, y, z>>) = <<y, z>> /\ Head(o) = x
    BY <2>1, <2>2, <2>3, OneLong, TwoLong, ThreeLong
  <2>6. d = <<>> => \A e : Append(o \o b \o d, e) = o \o b \o <<e>>
    BY <1>8, <2>1, <2>2, <2>3, <2>4, Joins, OneLong, TwoLong, ThreeLong
  <2> QED
    BY <1>8, <2>4, <2>5, <2>6
<1> QED
  BY <1>1, <1>2, <1>3, <1>4, <1>5, <1>6, <1>7, <1>8

-----------------------------------------------------------------------------
(* The descriptions and the operations by their kinds. *)
Offer(x) == [type |-> "offer", offer |-> x]
Answer(x) == [type |-> "answer", offer |-> x]
Local(what) == [op |-> "local", next |-> what]
Remote(signal) == [op |-> "remote", signal |-> signal]
IsAnswered(x) == [type |-> "answer", offer |-> x, answered |-> x]

(* When two short sequences differ. *)
LEMMA Lengths ==
  /\ \A a : <<a>> # <<>>
  /\ \A a, b : <<a, b>> # <<>>
  /\ \A a, b, c : <<a>> # <<b, c>>
  /\ \A a, b : <<a>> = <<b>> <=> a = b
  /\ \A a, b, c, d : <<a, b>> = <<c, d>> <=> a = c /\ b = d
OBVIOUS

(* The fields of the constructors, which the proofs do not open otherwise. *)
LEMMA Apart ==
  ASSUME NEW x, NEW y
  PROVE  /\ Offer(x).type = "offer" /\ Offer(x).offer = x
         /\ Answer(x).type = "answer" /\ Answer(x).offer = x
         /\ Offer(x) # Answer(y)
         /\ Local(x).op = "local" /\ Local(x).next = x
         /\ Remote(x).op = "remote" /\ Remote(x).signal = x
         /\ Local(x) # Remote(y)
         /\ IsAnswered(x).offer = x /\ IsAnswered(x).answered = x /\ IsAnswered(x).type = "answer"
BY DEF Offer, Answer, Local, Remote, IsAnswered

LEMMA Differ ==
  \A x, y : /\ Offer(x) # Answer(y)
            /\ Local(x) # Remote(y)
            /\ Remote(Offer(x)) # Remote(Answer(y))
            /\ Local("offer") # Local("answer")
BY DEF Offer, Answer, Local, Remote

(* The caller has offered, and so has the callee: the offers that are pending. *)
Calling == signaling["caller"] = "have-local-offer"
Bidding == signaling["callee"] = "have-local-offer"
Called == pending["caller"]
Bid == pending["callee"]

(* The places of the caller's offer: its digest before it is sent, the mail  *)
(* of the callee, the chain of the callee, the callee that has applied it,   *)
(* the digest of the answer, and the answer in the chain of the caller.      *)
CallUnsent == waiting["caller"] \in {<<"offer">>, <<"answer", "offer">>}
CallPosted == relayed["callee"] \in {<<Offer(Called)>>, <<Answer(Bid), Offer(Called)>>}
CallTaken == chain["callee"] \in {<<Local("offer"), Remote(Offer(Called))>>, <<Remote(Offer(Called))>>,
                                  <<Remote(Answer(Bid)), Remote(Offer(Called))>>}
CallApplied == signaling["callee"] = "have-remote-offer"
CallGiven == waiting["callee"] \in {<<"answer">>, <<"answer", "offer">>}
CallBack == chain["caller"] = <<Remote(Answer(Called))>>
(* The places of the offer of the callee, which the caller may ignore. *)
BidUnsent == Bidding /\ waiting["callee"] \in {<<"offer">>, <<"answer", "offer">>}
BidTaken == chain["caller"] = <<Remote(Offer(Bid))>>
BidApplied == signaling["caller"] = "have-remote-offer"
BidGiven == waiting["caller"] \in {<<"answer">>, <<"answer", "offer">>}
BidReturned == relayed["callee"] \in {<<Answer(Bid)>>, <<Answer(Bid), Offer(Called)>>}
BidBack == chain["callee"] \in {<<Remote(Answer(Bid))>>, <<Remote(Answer(Bid)), Remote(Offer(Called))>>}

(* What the chain and the digests of the caller can hold in each state. *)
CallerShape ==
    \/ signaling["caller"] = "new" /\ chain["caller"] = <<>> /\ waiting["caller"] = <<>>
    \/ /\ signaling["caller"] = "stable" /\ waiting["caller"] \in {<<>>, <<"answer">>}
       /\ \/ chain["caller"] \in {<<>>, <<Remote(Offer(Bid))>>}
          \/ chain["caller"] = <<Local("offer")>> /\ making["caller"]
    \/ /\ signaling["caller"] = "have-local-offer"
       /\ chain["caller"] \in {<<>>, <<Remote(Answer(Called))>>}
       /\ waiting["caller"] \in {<<>>, <<"offer">>, <<"answer", "offer">>}
    \/ /\ signaling["caller"] = "have-remote-offer"
       /\ \/ chain["caller"] = <<>> /\ waiting["caller"] \in {<<>>, <<"reply">>}
          \/ chain["caller"] = <<Local("answer")>> /\ waiting["caller"] = <<>>

(* What those of the callee can hold.  It takes an offer in every state, so  *)
(* its chain may hold one behind its own operation, and a digest of its own  *)
(* offer may outlive the offer.                                              *)
CalleeShape ==
    \/ signaling["callee"] = "new" /\ chain["callee"] = <<>> /\ waiting["callee"] = <<>>
    \/ /\ signaling["callee"] = "stable" /\ waiting["callee"] \in {<<>>, <<"answer">>}
       /\ chain["callee"] \in {<<>>, <<Local("offer")>>, <<Remote(Offer(Called))>>,
                               <<Local("offer"), Remote(Offer(Called))>>}
    \/ /\ signaling["callee"] = "have-local-offer"
       /\ chain["callee"] \in {<<>>, <<Remote(Answer(Bid))>>, <<Remote(Offer(Called))>>,
                               <<Remote(Answer(Bid)), Remote(Offer(Called))>>}
       /\ waiting["callee"] \in {<<>>, <<"offer">>, <<"answer", "offer">>}
    \/ /\ signaling["callee"] = "have-remote-offer"
       /\ \/ chain["callee"] = <<>> /\ waiting["callee"] \in {<<>>, <<"reply">>, <<"offer", "reply">>}
          \/ chain["callee"] = <<Local("answer")>> /\ waiting["callee"] = <<>>

(* What is on its way to the callee. *)
MailShape == relayed["callee"] \in {<<>>, <<Answer(Bid)>>, <<Offer(Called)>>, <<Answer(Bid), Offer(Called)>>}

(* On its way to the caller, in this order: an offer that was rolled back    *)
(* before it was sent or taken, the answer to the call, and the bid.  The    *)
(* old offer is ignored when it arrives, because the caller still waits for  *)
(* an answer.                                                                *)
OldMail(old) ==
    old # <<>> => /\ Calling /\ ~CallUnsent /\ ~CallPosted /\ ~CallTaken /\ ~CallBack
                  /\ waiting["callee"] # <<"offer", "reply">>

(* The call is in one place, and its answer is what the callee has settled on. *)
OneCall(back) ==
    /\ CallUnsent => Calling /\ ~CallPosted /\ ~CallTaken /\ ~CallApplied /\ ~CallGiven /\ back = <<>> /\ ~CallBack
    /\ CallPosted => Calling /\ ~CallTaken /\ ~CallApplied /\ ~CallGiven /\ back = <<>> /\ ~CallBack /\ ~BidGiven
    /\ CallTaken => Calling /\ ~CallApplied /\ ~CallGiven /\ back = <<>> /\ ~CallBack /\ ~BidGiven /\ ~BidReturned
    /\ CallApplied => Calling /\ Called = Bid /\ ~CallGiven /\ back = <<>> /\ ~CallBack /\ ~BidGiven /\ ~BidReturned /\ ~BidBack
    /\ CallGiven => Calling /\ settled["callee"] = IsAnswered(Called) /\ back = <<>> /\ ~CallBack /\ ~BidGiven /\ ~BidReturned /\ ~BidBack
    /\ back # <<>> => Calling /\ settled["callee"] = IsAnswered(Called) /\ ~CallBack /\ ~BidGiven /\ ~BidReturned /\ ~BidBack
    /\ CallBack => Calling /\ settled["callee"] = IsAnswered(Called) /\ ~BidGiven /\ ~BidReturned /\ ~BidBack

(* The bid is in one place, and its answer is what the caller has settled on. *)
OneBid(bid) ==
    /\ BidUnsent => bid = <<>> /\ ~BidTaken /\ ~BidApplied /\ ~BidGiven /\ ~BidReturned /\ ~BidBack
    /\ bid # <<>> => Bidding /\ ~BidTaken /\ ~BidApplied /\ ~BidGiven /\ ~BidReturned /\ ~BidBack
    /\ BidTaken => Bidding /\ ~BidApplied /\ ~BidGiven /\ ~BidReturned /\ ~BidBack
    /\ BidApplied => Bidding /\ Called = Bid /\ ~BidGiven /\ ~BidReturned /\ ~BidBack
    /\ BidGiven => Bidding /\ settled["caller"] = IsAnswered(Bid) /\ ~BidReturned /\ ~BidBack
    /\ BidReturned => Bidding /\ settled["caller"] = IsAnswered(Bid) /\ ~BidBack
    /\ BidBack => Bidding /\ settled["caller"] = IsAnswered(Bid)

(* The mail of the caller in its three parts. *)
MailAt(old, back, bid) ==
    /\ relayed["caller"] = old \o back \o bid
    /\ old = <<>> \/ \E x : old = <<Offer(x)>>
    /\ back = <<>> \/ back = <<Answer(Called)>>
    /\ bid = <<>> \/ bid = <<Offer(Bid)>>

(* As soon as nobody waits for an answer the two sides agree. *)
Agreement ==
    /\ Calling \/ Bidding \/ settled["caller"].offer = settled["callee"].offer
    /\ \A p \in Side : settled[p].offer = settled[p].answered

OnSides ==
    /\ DOMAIN signaling = Side /\ DOMAIN pending = Side /\ DOMAIN settled = Side
    /\ DOMAIN chain = Side /\ DOMAIN making = Side /\ DOMAIN waiting = Side
    /\ DOMAIN relayed = Side

NegotiationInv ==
    /\ OnSides
    /\ CallerShape /\ CalleeShape /\ MailShape
    /\ \E old, back, bid : MailAt(old, back, bid) /\ OldMail(old) /\ OneCall(back) /\ OneBid(bid)
    /\ Agreement

-----------------------------------------------------------------------------
(* A step leaves the places of the caller, of the callee and of the callee's *)
(* mail as they are.                                                         *)
CallerSame ==
    /\ Calling' <=> Calling
    /\ CallUnsent' <=> CallUnsent
    /\ CallBack' <=> CallBack
    /\ BidTaken' <=> BidTaken
    /\ BidApplied' <=> BidApplied
    /\ BidGiven' <=> BidGiven

CalleeSame ==
    /\ Bidding' <=> Bidding
    /\ CallTaken' <=> CallTaken
    /\ CallApplied' <=> CallApplied
    /\ CallGiven' <=> CallGiven
    /\ BidUnsent' <=> BidUnsent
    /\ BidBack' <=> BidBack
    /\ (waiting["callee"] = <<"offer", "reply">>)' <=> (waiting["callee"] = <<"offer", "reply">>)

PostSame ==
    /\ CallPosted' <=> CallPosted
    /\ BidReturned' <=> BidReturned

LEMMA CallerRests ==
  ASSUME UNCHANGED <<signaling["caller"], chain["caller"], waiting["caller"], making["caller"], pending>>
  PROVE  CallerSame /\ (CallerShape' <=> CallerShape)
BY DEF CallerSame, CallerShape, Calling, CallUnsent, CallBack, BidTaken, BidApplied, BidGiven, Called, Bid

LEMMA CalleeRests ==
  ASSUME UNCHANGED <<signaling["callee"], chain["callee"], waiting["callee"], pending>>
  PROVE  CalleeSame /\ (CalleeShape' <=> CalleeShape)
BY DEF CalleeSame, CalleeShape, Bidding, CallTaken, CallApplied, CallGiven, BidUnsent, BidBack, Called, Bid

LEMMA PostRests ==
  ASSUME UNCHANGED <<relayed["callee"], pending>>
  PROVE  PostSame /\ (MailShape' <=> MailShape)
BY DEF PostSame, MailShape, CallPosted, BidReturned, Called, Bid

(* In order, a digest that ends is the first one. *)
LEMMA FirstDigest ==
  ASSUME NEW p \in Side, NEW what, DigestsInOrder, DigestEnds(p, what), OnSides,
         waiting[p] \in {<<>>, <<"reply">>, <<"offer">>, <<"answer">>, <<"answer", "offer">>,
                         <<"offer", "reply">>}
  PROVE  /\ waiting[p] # <<>> /\ Head(waiting[p]) = what
         /\ waiting' = [waiting EXCEPT ![p] = Tail(waiting[p])]
<1> DEFINE w == waiting[p]
           rest(i) == SubSeq(w, 1, i - 1) \o SubSeq(w, i + 1, Len(w))
<1>1. PICK i \in DOMAIN w : i = 1 /\ w[i] = what /\ waiting' = [waiting EXCEPT ![p] = rest(i)]
  BY DEF DigestEnds
<1>2. w \in {<<>>, <<"reply">>, <<"offer">>, <<"answer">>, <<"answer", "offer">>, <<"offer", "reply">>}
  OBVIOUS
<1> HIDE DEF w
<1>3. w \in Seq({"reply", "offer", "answer"})
  <2>1. /\ <<>> \in Seq({"reply", "offer", "answer"}) /\ <<"reply">> \in Seq({"reply", "offer", "answer"})
        /\ <<"offer">> \in Seq({"reply", "offer", "answer"}) /\ <<"answer">> \in Seq({"reply", "offer", "answer"})
        /\ <<"answer", "offer">> \in Seq({"reply", "offer", "answer"})
        /\ <<"offer", "reply">> \in Seq({"reply", "offer", "answer"})
    OBVIOUS
  <2> QED
    BY <1>2, <2>1
<1>4. w # <<>>
  <2>1. DOMAIN w = 1..Len(w)
    BY <1>3, LenProperties
  <2> QED
    BY <1>1, <2>1, EmptySeq
<1>5. Head(w) = what
  BY <1>1, <1>2, <1>4, OneLong, TwoLong
<1>6. Tail(w) = SubSeq(w, 2, Len(w)) /\ Tail(w) \in Seq({"reply", "offer", "answer"})
  BY <1>3, <1>4, TailIsSubSeq, HeadTailProperties
<1>7. SubSeq(w, 1, 0) = <<>>
  BY SubSeqEmpty
<1>8. <<>> \o Tail(w) = Tail(w)
  BY <1>6, ConcatEmptySeq
<1>9. rest(1) = Tail(w)
  BY <1>6, <1>7, <1>8
<1> QED
  BY <1>1, <1>4, <1>5, <1>9 DEF w

-----------------------------------------------------------------------------
(* A step that no part of the invariant sees keeps it. *)
LEMMA Unseen ==
  ASSUME NegotiationInv, UNCHANGED <<pending, settled, relayed>>,
         OnSides', CallerShape', CalleeShape', CallerSame, CalleeSame
  PROVE  NegotiationInv'
<1>1. PICK old, back, bid : MailAt(old, back, bid) /\ OldMail(old) /\ OneCall(back) /\ OneBid(bid)
  BY DEF NegotiationInv
<1>2. Called' = Called /\ Bid' = Bid
  BY DEF Called, Bid
<1>3. MailShape' /\ PostSame
  BY PostRests DEF NegotiationInv
<1>4. MailAt(old, back, bid)'
  BY <1>1, <1>2 DEF MailAt
<1>5. OldMail(old)'
  BY <1>1, <1>3 DEF OldMail, CallerSame, CalleeSame, PostSame
<1>6. OneCall(back)'
  BY <1>1, <1>2, <1>3 DEF OneCall, CallerSame, CalleeSame, PostSame
<1>7. OneBid(bid)'
  BY <1>1, <1>2, <1>3 DEF OneBid, CallerSame, CalleeSame, PostSame
<1>8. Agreement'
  BY DEF NegotiationInv, Agreement, CallerSame, CalleeSame
<1> QED
  BY <1>3, <1>4, <1>5, <1>6, <1>7, <1>8 DEF NegotiationInv

LEMMA StartKeeps ==
  ASSUME NegotiationInv, NEW p \in Side, StartPeer(p)
  PROVE  NegotiationInv'
<1>1. /\ OnSides' /\ signaling[p] = "new" /\ signaling' = [signaling EXCEPT ![p] = "stable"]
      /\ UNCHANGED <<pending, settled, chain, making, waiting, relayed>>
  BY DEF StartPeer, OnSides, NegotiationInv
<1>2. CallerShape /\ CalleeShape /\ DOMAIN signaling = Side
  BY DEF NegotiationInv, OnSides
<1>3. CASE p = "caller"
  <2>1. CallerShape' /\ CallerSame
    BY <1>1, <1>2, <1>3, Apart DEF CallerShape, CallerSame, Calling, CallUnsent, CallBack, BidTaken, BidApplied,
       BidGiven, Called, Bid
  <2>2. signaling'["callee"] = signaling["callee"]
    BY <1>1, <1>2, <1>3 DEF Side
  <2> QED
    BY <1>1, <1>2, <2>1, <2>2, CalleeRests, Unseen
<1>4. CASE p = "callee"
  <2>1. CalleeShape' /\ CalleeSame
    BY <1>1, <1>2, <1>4 DEF CalleeShape, CalleeSame, Bidding, CallTaken, CallApplied,
       CallGiven, BidUnsent, BidBack, Called, Bid
  <2>2. signaling'["caller"] = signaling["caller"]
    BY <1>1, <1>2, <1>4 DEF Side
  <2> QED
    BY <1>1, <1>2, <2>1, <2>2, CallerRests, Unseen
<1> QED
  BY <1>3, <1>4 DEF Side

LEMMA NeedKeeps ==
  ASSUME NegotiationInv, DigestsInOrder, NEW p \in Side, NegotiationNeeded(p)
  PROVE  NegotiationInv'
<1>1. /\ OnSides' /\ signaling[p] = "stable" /\ chain[p] = <<>>
      /\ chain' = [chain EXCEPT ![p] = <<Local("offer")>>] /\ making' = [making EXCEPT ![p] = TRUE]
      /\ UNCHANGED <<signaling, pending, settled, waiting, relayed>>
  BY DEF NegotiationNeeded, OnSides, NegotiationInv, Local
<1>2. CallerShape /\ CalleeShape /\ DOMAIN chain = Side /\ DOMAIN making = Side
  BY DEF NegotiationInv, OnSides
<1>3. CASE p = "caller"
  <2>1. chain'["caller"] = <<Local("offer")>> /\ making'["caller"]
    BY <1>1, <1>2, <1>3
  <2>2. \A y : <<Local("offer")>> # <<Remote(y)>> /\ <<Local("offer")>> # <<>>
    BY Apart, OneLong
  <2>3. CallerShape' /\ CallerSame
    BY <1>1, <1>2, <1>3, <2>1, <2>2 DEF CallerShape, CallerSame, Calling, CallUnsent, CallBack, BidTaken, BidApplied,
       BidGiven, Called, Bid
  <2>4. chain'["callee"] = chain["callee"]
    BY <1>1, <1>2, <1>3 DEF Side
  <2> QED
    BY <1>1, <1>2, <2>3, <2>4, CalleeRests, Unseen
<1>4. CASE p = "callee"
  <2>1. chain'["callee"] = <<Local("offer")>>
    BY <1>1, <1>2, <1>4
  <2>2. \A y : <<Local("offer")>> # <<Remote(y)>> /\ <<Local("offer")>> # <<>>
    BY Apart, OneLong
  <2>3. CalleeShape' /\ CalleeSame
    BY <1>1, <1>2, <1>4, <2>1, <2>2, TwoLong DEF CalleeShape, CalleeSame, Bidding, CallTaken, CallApplied,
       CallGiven, BidUnsent, BidBack, Called, Bid
  <2>4. chain'["caller"] = chain["caller"] /\ making'["caller"] = making["caller"]
    BY <1>1, <1>2, <1>4 DEF Side
  <2> QED
    BY <1>1, <1>2, <2>3, <2>4, CallerRests, Unseen
<1> QED
  BY <1>3, <1>4 DEF Side

(* The digests that handlers may be waiting for. *)
LEMMA Waits ==
  ASSUME NegotiationInv, NEW p \in Side
  PROVE  waiting[p] \in {<<>>, <<"reply">>, <<"offer">>, <<"answer">>, <<"answer", "offer">>,
                         <<"offer", "reply">>}
<1>1. waiting["caller"] \in {<<>>, <<"reply">>, <<"offer">>, <<"answer">>, <<"answer", "offer">>}
  BY DEF NegotiationInv, CallerShape
<1>2. waiting["callee"] \in {<<>>, <<"reply">>, <<"offer">>, <<"answer">>, <<"answer", "offer">>,
                             <<"offer", "reply">>}
  BY DEF NegotiationInv, CalleeShape
<1> QED
  BY <1>1, <1>2 DEF Side

LEMMA ReplyKeeps ==
  ASSUME NegotiationInv, DigestsInOrder, NEW p \in Side, Reply(p)
  PROVE  NegotiationInv'
<1>1. /\ waiting[p] # <<>> /\ Head(waiting[p]) = "reply"
      /\ waiting' = [waiting EXCEPT ![p] = Tail(waiting[p])]
  BY Waits, FirstDigest DEF Reply, NegotiationInv
<1>2. /\ chain' = [chain EXCEPT ![p] = Append(chain[p], Local("answer"))]
      /\ UNCHANGED <<signaling, pending, settled, making, relayed>>
  BY DEF Reply, Local
<1>3. CallerShape /\ CalleeShape /\ DOMAIN chain = Side /\ DOMAIN waiting = Side /\ OnSides'
  BY <1>1, <1>2 DEF NegotiationInv, OnSides
<1>4. \A y : <<Local("answer")>> # <<Remote(y)>> /\ <<Local("answer")>> # <<>>
  BY Apart, OneLong
<1>5. waiting[p] = <<"reply">> /\ waiting'[p] = <<>>
  BY <1>1, <1>3, Waits, OneLong, TwoLong
<1>6. CASE p = "caller"
  <2>1. chain["caller"] = <<>> /\ signaling["caller"] = "have-remote-offer"
    BY <1>3, <1>5, <1>6, OneLong, TwoLong DEF CallerShape
  <2>2. chain'["caller"] = <<Local("answer")>>
    BY <1>2, <1>3, <1>6, <2>1, OneLong
  <2>3. CallerShape' /\ CallerSame
    BY <1>2, <1>4, <1>5, <1>6, <2>1, <2>2 DEF CallerShape, CallerSame, Calling, CallUnsent, CallBack, BidTaken,
       BidApplied, BidGiven, Called, Bid
  <2>4. chain'["callee"] = chain["callee"] /\ waiting'["callee"] = waiting["callee"]
    BY <1>1, <1>2, <1>3, <1>6 DEF Side
  <2> QED
    BY <1>2, <1>3, <2>3, <2>4, CalleeRests, Unseen
<1>7. CASE p = "callee"
  <2>1. chain["callee"] = <<>> /\ signaling["callee"] = "have-remote-offer"
    BY <1>3, <1>5, <1>7, OneLong, TwoLong DEF CalleeShape
  <2>2. chain'["callee"] = <<Local("answer")>>
    BY <1>2, <1>3, <1>7, <2>1, OneLong
  <2>3. CalleeShape' /\ CalleeSame
    BY <1>2, <1>4, <1>5, <1>7, <2>1, <2>2, TwoLong DEF CalleeShape, CalleeSame, Bidding, CallTaken, CallApplied,
       CallGiven, BidUnsent, BidBack, Called, Bid
  <2>4. chain'["caller"] = chain["caller"] /\ waiting'["caller"] = waiting["caller"]
    BY <1>1, <1>2, <1>3, <1>7 DEF Side
  <2> QED
    BY <1>2, <1>3, <2>3, <2>4, CallerRests, Unseen
<1> QED
  BY <1>6, <1>7 DEF Side

(* A reconnect that loses what was on its way to a side. *)
LEMMA LossKeeps ==
  ASSUME NegotiationInv, NEW p \in Side, LoseSignals(p)
  PROVE  NegotiationInv'
<1>1. PICK old, back, bid : MailAt(old, back, bid) /\ OldMail(old) /\ OneCall(back) /\ OneBid(bid)
  BY DEF NegotiationInv
<1>2. /\ relayed' = [relayed EXCEPT ![p] = <<>>]
      /\ UNCHANGED <<signaling, pending, settled, chain, making, waiting>>
  BY DEF LoseSignals
<1>3. DOMAIN relayed = Side /\ OnSides' /\ CallerShape' /\ CalleeShape' /\ CallerSame /\ CalleeSame
  BY <1>2, CallerRests, CalleeRests DEF NegotiationInv, OnSides
<1>4. Agreement' /\ Called' = Called /\ Bid' = Bid
  BY <1>2 DEF NegotiationInv, Agreement, Calling, Bidding, Called, Bid
<1>5. CASE p = "caller"
  <2>1. relayed'["caller"] = <<>> /\ relayed'["callee"] = relayed["callee"]
    BY <1>2, <1>3, <1>5 DEF Side
  <2>2. MailShape' /\ PostSame
    BY <1>2, <2>1, PostRests DEF NegotiationInv
  <2>3. MailAt(<<>>, <<>>, <<>>)'
    BY <2>1, Joins DEF MailAt
  <2>4. OldMail(<<>>)' /\ OneCall(<<>>)'
    BY <1>1, <1>2, <1>3, <1>4, <2>2 DEF OldMail, OneCall, CallerSame, CalleeSame, PostSame
  <2>5. OneBid(<<>>)'
    BY <1>1, <1>2, <1>3, <1>4, <2>2 DEF OneBid, CallerSame, CalleeSame, PostSame
  <2> QED
    BY <1>3, <1>4, <2>2, <2>3, <2>4, <2>5 DEF NegotiationInv
<1>6. CASE p = "callee"
  <2>1. relayed'["callee"] = <<>> /\ relayed'["caller"] = relayed["caller"]
    BY <1>2, <1>3, <1>6 DEF Side
  <2>2. MailShape' /\ ~CallPosted' /\ ~BidReturned'
    BY <2>1, OneLong, TwoLong DEF MailShape, CallPosted, BidReturned
  <2>3. MailAt(old, back, bid)'
    BY <1>1, <1>4, <2>1 DEF MailAt
  <2>4. OldMail(old)' /\ OneCall(back)'
    BY <1>1, <1>2, <1>3, <1>4, <2>2 DEF OldMail, OneCall, CallerSame, CalleeSame
  <2>5. OneBid(bid)'
    BY <1>1, <1>2, <1>3, <1>4, <2>2 DEF OneBid, CallerSame, CalleeSame
  <2> QED
    BY <1>3, <1>4, <2>2, <2>3, <2>4, <2>5 DEF NegotiationInv
<1> QED
  BY <1>5, <1>6 DEF Side

-----------------------------------------------------------------------------
(* What each kind of operation does. *)
LEMMA LocalOperation ==
  ASSUME NEW p \in Side, NEW next, Operate(p), Head(chain[p]) = Local(next)
  PROVE  SetLocal(p, next) /\ chain' = [chain EXCEPT ![p] = Tail(chain[p])] /\ UNCHANGED <<making, relayed>>
<1>1. Local(next).op = "local" /\ Local(next).next = next
  BY DEF Local
<1> QED
  BY <1>1 DEF Operate

LEMMA RemoteOperation ==
  ASSUME NEW p \in Side, NEW signal, Operate(p), Head(chain[p]) = Remote(signal)
  PROVE  /\ chain' = [chain EXCEPT ![p] = Tail(chain[p])] /\ UNCHANGED <<making, relayed>>
         /\ signal.type = "offer" => SetRemoteOffer(p, signal.offer)
         /\ signal.type = "answer" => SetRemoteAnswer(p, signal.offer)
<1>1. Remote(signal).op = "remote" /\ Remote(signal).signal = signal
  BY DEF Remote
<1> QED
  BY <1>1 DEF Operate

LEMMA OperateKeepsDomains ==
  ASSUME NEW p \in Side, OnSides, Operate(p)
  PROVE  OnSides'
BY DEF OnSides, Operate, SetLocal, SetRemoteOffer, SetRemoteAnswer, Await

(* The caller's connection runs an operation: it applies the bid, makes an   *)
(* offer, takes the answer to the call, or answers the bid.                  *)
LEMMA CallerOperates ==
  ASSUME NegotiationInv, Operate("caller")
  PROVE  NegotiationInv'
<1>1. PICK old, back, bid : MailAt(old, back, bid) /\ OldMail(old) /\ OneCall(back) /\ OneBid(bid)
  BY DEF NegotiationInv
<1>2. CallerShape /\ CalleeShape /\ MailShape /\ OnSides /\ OnSides' /\ "caller" \in Side /\ "callee" \in Side
  BY OperateKeepsDomains DEF NegotiationInv, Side
<1>3. chain["caller"] # <<>>
  BY DEF Operate
<1>4. CASE signaling["caller"] = "stable" /\ chain["caller"] = <<Remote(Offer(Bid))>>
  <2>1. /\ SetRemoteOffer("caller", Bid) /\ UNCHANGED <<making, relayed>>
        /\ chain' = [chain EXCEPT !["caller"] = <<>>]
    <3>1. Head(chain["caller"]) = Remote(Offer(Bid)) /\ Tail(chain["caller"]) = <<>>
      BY <1>4, OneLong
    <3>2. Offer(Bid).type = "offer" /\ Offer(Bid).offer = Bid
      BY Apart
    <3> QED
      BY <1>2, <3>1, <3>2, RemoteOperation
  <2>2. /\ BidTaken /\ Bidding /\ ~BidGiven /\ ~BidReturned /\ ~BidBack /\ ~BidUnsent /\ bid = <<>>
    BY <1>1, <1>4 DEF BidTaken, OneBid
  <2>3. waiting["caller"] = <<>>
    BY <1>2, <1>4, <2>2 DEF CallerShape, BidGiven
  <2>4. /\ signaling' = [signaling EXCEPT !["caller"] = "have-remote-offer"]
        /\ pending' = [pending EXCEPT !["caller"] = Bid]
        /\ waiting' = [waiting EXCEPT !["caller"] = <<"reply">>]
        /\ UNCHANGED settled
    BY <2>1, <2>3, OneLong DEF SetRemoteOffer, Await
  <2>5. /\ signaling'["caller"] = "have-remote-offer" /\ chain'["caller"] = <<>> /\ waiting'["caller"] = <<"reply">>
        /\ signaling'["callee"] = signaling["callee"] /\ chain'["callee"] = chain["callee"]
        /\ waiting'["callee"] = waiting["callee"] /\ Bid' = Bid /\ Called' = Bid /\ pending'["callee"] = pending["callee"]
    BY <1>2, <2>1, <2>4 DEF OnSides, Bid, Called, Side
  <2>6. ~Calling /\ ~CallUnsent /\ ~CallPosted /\ ~CallTaken /\ ~CallApplied /\ ~CallGiven /\ back = <<>>
        /\ ~CallBack /\ old = <<>>
    BY <1>1, <1>4 DEF OneCall, OldMail, Calling
  <2>7. relayed["callee"] = <<>>
    BY <1>2, <2>2, <2>6 DEF MailShape, CallPosted, BidReturned
  <2>8. chain["callee"] \in {<<>>, <<Local("offer")>>}
    BY <1>2, <2>2, <2>6 DEF CalleeShape, CallTaken, CallApplied, BidBack
  <2>9. CallerShape' /\ ~Calling' /\ ~CallUnsent' /\ ~CallBack' /\ ~BidTaken' /\ BidApplied' /\ ~BidGiven'
    BY <2>5, OneLong, TwoLong DEF CallerShape, Calling, CallUnsent, CallBack, BidTaken, BidApplied, BidGiven
  <2>10. CalleeShape' /\ ~CallTaken' /\ ~CallApplied' /\ ~CallGiven' /\ ~BidBack' /\ Bidding' /\ ~BidUnsent'
    <3>1. \A y : <<Local("offer")>> # <<Remote(y)>>
      BY Apart, OneLong
    <3>2. chain'["callee"] \in {<<>>, <<Local("offer")>>}
      BY <2>5, <2>8
    <3>3. ~CallTaken' /\ ~BidBack'
      BY <3>1, <3>2, Lengths DEF CallTaken, BidBack
    <3>4. CalleeShape'
      <4>1. /\ signaling["callee"] = "have-local-offer" /\ chain["callee"] = <<>>
            /\ waiting["callee"] \in {<<>>, <<"offer">>, <<"answer", "offer">>}
        <5>1. \A y, z : <<Local("offer")>> # <<Remote(y), Remote(z)>>
          BY Lengths
        <5>2. signaling["callee"] = "have-local-offer"
          BY <2>2 DEF Bidding
        <5> QED
          BY <1>2, <2>8, <3>1, <5>1, <5>2 DEF CalleeShape
      <4> QED
        BY <2>5, <4>1 DEF CalleeShape
    <3> QED
      BY <1>2, <2>2, <2>5, <2>6, <3>3, <3>4 DEF CallApplied, CallGiven, Bidding, BidUnsent
  <2>11. MailShape' /\ ~CallPosted' /\ ~BidReturned'
    BY <2>1, <2>7, OneLong, TwoLong DEF MailShape, CallPosted, BidReturned
  <2>12. MailAt(old, back, bid)'
    BY <1>1, <2>1, <2>2, <2>6 DEF MailAt
  <2>13. OldMail(old)' /\ OneCall(back)' /\ OneBid(bid)'
    BY <2>2, <2>5, <2>6, <2>9, <2>10, <2>11 DEF OldMail, OneCall, OneBid
  <2>14. Agreement'
    BY <2>4, <2>10 DEF NegotiationInv, Agreement
  <2> QED
    BY <1>2, <2>9, <2>10, <2>11, <2>12, <2>13, <2>14 DEF NegotiationInv
<1>5. CASE signaling["caller"] = "stable" /\ chain["caller"] = <<Local("offer")>>
  <2>1. /\ SetLocal("caller", "offer") /\ UNCHANGED <<making, relayed>>
        /\ chain' = [chain EXCEPT !["caller"] = <<>>]
    <3>1. Head(chain["caller"]) = Local("offer") /\ Tail(chain["caller"]) = <<>>
      BY <1>5, OneLong
    <3> QED
      BY <1>2, <3>1, LocalOperation
  <2>2. waiting["caller"] \in {<<>>, <<"answer">>}
    BY <1>2, <1>5 DEF CallerShape
  <2>3. /\ signaling' = [signaling EXCEPT !["caller"] = "have-local-offer"]
        /\ pending' = [pending EXCEPT !["caller"] = offers + 1]
        /\ waiting' = [waiting EXCEPT !["caller"] = Append(waiting["caller"], "offer")]
        /\ UNCHANGED settled
    BY <1>5, <2>1 DEF SetLocal, Await
  <2>4. /\ signaling'["caller"] = "have-local-offer" /\ chain'["caller"] = <<>>
        /\ waiting'["caller"] = Append(waiting["caller"], "offer")
        /\ signaling'["callee"] = signaling["callee"] /\ chain'["callee"] = chain["callee"]
        /\ waiting'["callee"] = waiting["callee"] /\ Bid' = Bid
    BY <1>2, <2>1, <2>3 DEF OnSides, Bid, Side
  <2>5. /\ waiting["caller"] = <<>> => waiting'["caller"] = <<"offer">>
        /\ waiting["caller"] = <<"answer">> => waiting'["caller"] = <<"answer", "offer">>
    BY <2>4, OneLong, TwoLong
  <2>6. ~Calling /\ ~CallUnsent /\ ~CallPosted /\ ~CallTaken /\ ~CallApplied /\ ~CallGiven /\ back = <<>>
        /\ ~CallBack /\ old = <<>>
    BY <1>1, <1>5 DEF OneCall, OldMail, Calling
  <2>7. relayed["callee"] \in {<<>>, <<Answer(Bid)>>}
    BY <1>2, <2>6 DEF MailShape, CallPosted
  <2>8. chain["callee"] \in {<<>>, <<Local("offer")>>, <<Remote(Answer(Bid))>>}
    BY <1>2, <2>6 DEF CalleeShape, CallTaken, CallApplied
  <2>9. ~BidTaken /\ ~BidApplied
    BY <1>5, Apart, OneLong DEF BidTaken, BidApplied
  <2>10. /\ CallerShape' /\ Calling' /\ CallUnsent' /\ ~CallBack' /\ ~BidTaken' /\ ~BidApplied'
         /\ (BidGiven' <=> BidGiven)
    BY <2>2, <2>4, <2>5, OneLong, TwoLong DEF CallerShape, Calling, CallUnsent, CallBack, BidTaken, BidApplied, BidGiven
  <2>11. /\ CalleeShape' /\ ~CallTaken' /\ ~CallApplied' /\ ~CallGiven'
         /\ (BidBack' <=> BidBack) /\ (Bidding' <=> Bidding) /\ (BidUnsent' <=> BidUnsent)
    <3>1. \A x, y : /\ <<Local("offer")>> # <<Remote(y)>>
                    /\ <<Remote(Answer(x))>> # <<Remote(Offer(y))>>
      BY Apart, OneLong
    <3>2. chain'["callee"] \in {<<>>, <<Local("offer")>>, <<Remote(Answer(Bid'))>>}
      BY <2>4, <2>8
    <3>3. ~CallTaken'
      BY <3>1, <3>2, Lengths DEF CallTaken
    <3>4. BidBack' <=> BidBack
      <4>1. BidBack <=> chain["callee"] = <<Remote(Answer(Bid))>>
        BY <2>8, <3>1, Lengths DEF BidBack
      <4>2. BidBack' <=> chain'["callee"] = <<Remote(Answer(Bid'))>>
        BY <3>1, <3>2, Lengths DEF BidBack
      <4> QED
        BY <2>4, <4>1, <4>2
    <3>5. CalleeShape'
      <4>1. CASE signaling["callee"] = "new"
        BY <1>2, <2>4, <4>1 DEF CalleeShape
      <4>2. CASE signaling["callee"] = "stable"
        <5>1. waiting["callee"] \in {<<>>, <<"answer">>} /\ chain["callee"] \in {<<>>, <<Local("offer")>>}
          BY <1>2, <2>8, <3>1, <4>2, Lengths, Apart DEF CalleeShape
        <5> QED
          BY <2>4, <4>2, <5>1 DEF CalleeShape
      <4>3. CASE signaling["callee"] = "have-local-offer"
        <5>1. /\ waiting["callee"] \in {<<>>, <<"offer">>, <<"answer", "offer">>}
              /\ chain["callee"] \in {<<>>, <<Remote(Answer(Bid))>>}
          BY <1>2, <2>8, <3>1, <4>3, Lengths, Apart DEF CalleeShape
        <5> QED
          BY <2>4, <4>3, <5>1 DEF CalleeShape
      <4> QED
        BY <1>2, <2>6, <4>1, <4>2, <4>3 DEF CalleeShape, CallApplied
    <3> QED
      BY <1>2, <2>4, <2>6, <3>3, <3>4, <3>5 DEF CallApplied, CallGiven, Bidding, BidUnsent
  <2>12. MailShape' /\ ~CallPosted' /\ (BidReturned' <=> BidReturned)
    <3>1. \A x, y : <<Answer(x)>> # <<Offer(y)>>
      BY Apart, OneLong
    <3>2. relayed'["callee"] \in {<<>>, <<Answer(Bid')>>} /\ relayed' = relayed
      BY <2>1, <2>4, <2>7
    <3>3. MailShape' /\ ~CallPosted'
      BY <3>1, <3>2, Lengths DEF MailShape, CallPosted
    <3>4. BidReturned' <=> BidReturned
      <4>1. BidReturned <=> relayed["callee"] = <<Answer(Bid)>>
        BY <2>7, <3>1, Lengths DEF BidReturned
      <4>2. BidReturned' <=> relayed'["callee"] = <<Answer(Bid')>>
        BY <3>1, <3>2, Lengths DEF BidReturned
      <4> QED
        BY <2>4, <3>2, <4>1, <4>2
    <3> QED
      BY <3>3, <3>4
  <2>13. MailAt(old, back, bid)'
    BY <1>1, <2>1, <2>4, <2>6 DEF MailAt
  <2>14. OldMail(old)' /\ OneCall(back)'
    BY <2>6, <2>10, <2>11, <2>12 DEF OldMail, OneCall
  <2>15. OneBid(bid)'
    BY <1>1, <2>3, <2>4, <2>9, <2>10, <2>11, <2>12 DEF OneBid
  <2>16. Agreement'
    BY <2>3, <2>10 DEF NegotiationInv, Agreement
  <2> QED
    BY <1>2, <2>10, <2>11, <2>12, <2>13, <2>14, <2>15, <2>16 DEF NegotiationInv
<1>6. CASE signaling["caller"] = "have-local-offer" /\ chain["caller"] = <<Remote(Answer(Called))>>
  <2>1. /\ SetRemoteAnswer("caller", Called) /\ UNCHANGED <<making, relayed>>
        /\ chain' = [chain EXCEPT !["caller"] = <<>>]
    <3>1. Head(chain["caller"]) = Remote(Answer(Called)) /\ Tail(chain["caller"]) = <<>>
      BY <1>6, OneLong
    <3>2. Answer(Called).type = "answer" /\ Answer(Called).offer = Called
      BY Apart
    <3> QED
      BY <1>2, <3>1, <3>2, RemoteOperation
  <2>2. /\ signaling' = [signaling EXCEPT !["caller"] = "stable"]
        /\ settled' = [settled EXCEPT !["caller"] = [type |-> "offer", offer |-> Called, answered |-> Called]]
        /\ UNCHANGED <<pending, waiting>>
    BY <1>6, <2>1 DEF SetRemoteAnswer, Called
  <2>3. CallBack /\ settled["callee"] = IsAnswered(Called) /\ ~BidGiven /\ ~BidReturned /\ ~BidBack
        /\ ~CallUnsent /\ ~CallPosted /\ ~CallTaken /\ ~CallApplied /\ ~CallGiven /\ back = <<>> /\ old = <<>>
    BY <1>1, <1>6 DEF OneCall, OldMail, CallBack
  <2>4. waiting["caller"] = <<>>
    BY <1>2, <1>6, <2>3 DEF CallerShape, CallUnsent
  <2>5. /\ signaling'["caller"] = "stable" /\ chain'["caller"] = <<>> /\ waiting'["caller"] = <<>>
        /\ signaling'["callee"] = signaling["callee"] /\ chain'["callee"] = chain["callee"]
        /\ waiting'["callee"] = waiting["callee"]
        /\ settled'["caller"].offer = Called /\ settled'["caller"].answered = Called
        /\ settled'["callee"] = settled["callee"]
    BY <1>2, <2>1, <2>2, <2>4 DEF OnSides, Side
  <2>6. CallerShape' /\ ~Calling' /\ ~CallUnsent' /\ ~CallBack' /\ ~BidTaken' /\ ~BidApplied' /\ ~BidGiven'
    BY <2>5, OneLong, TwoLong DEF CallerShape, Calling, CallUnsent, CallBack, BidTaken, BidApplied, BidGiven
  <2>7. CalleeShape' /\ CalleeSame /\ MailShape' /\ PostSame
    BY <1>2, <2>1, <2>2, <2>5, CalleeRests, PostRests
  <2>8. MailAt(old, back, bid)'
    BY <1>1, <2>1, <2>2, <2>3 DEF MailAt, Bid
  <2>9. OldMail(old)' /\ OneCall(back)'
    BY <2>3, <2>6, <2>7 DEF OldMail, OneCall, CalleeSame, PostSame
  <2>10. OneBid(bid)'
    BY <1>1, <2>3, <2>6, <2>7 DEF OneBid, CalleeSame, PostSame
  <2>11. Agreement'
    BY <2>3, <2>5, Apart DEF Agreement, Side
  <2> QED
    BY <1>2, <2>6, <2>7, <2>8, <2>9, <2>10, <2>11 DEF NegotiationInv
<1>7. CASE signaling["caller"] = "have-remote-offer" /\ chain["caller"] = <<Local("answer")>>
  <2>1. /\ SetLocal("caller", "answer") /\ UNCHANGED <<making, relayed>>
        /\ chain' = [chain EXCEPT !["caller"] = <<>>]
    <3>1. Head(chain["caller"]) = Local("answer") /\ Tail(chain["caller"]) = <<>>
      BY <1>7, OneLong
    <3> QED
      BY <1>2, <3>1, LocalOperation
  <2>2. waiting["caller"] = <<>>
    BY <1>2, <1>7, OneLong DEF CallerShape
  <2>3. /\ signaling' = [signaling EXCEPT !["caller"] = "stable"]
        /\ settled' = [settled EXCEPT !["caller"] = IsAnswered(Called)]
        /\ waiting' = [waiting EXCEPT !["caller"] = <<"answer">>]
        /\ UNCHANGED pending
    BY <1>7, <2>1, <2>2, OneLong DEF SetLocal, Await, Called, IsAnswered
  <2>4. BidApplied /\ Bidding /\ Called = Bid /\ ~BidReturned /\ ~BidBack /\ ~BidUnsent /\ bid = <<>>
    BY <1>1, <1>7 DEF BidApplied, OneBid
  <2>5. ~Calling /\ ~CallUnsent /\ ~CallPosted /\ ~CallTaken /\ ~CallApplied /\ ~CallGiven /\ back = <<>>
        /\ ~CallBack /\ old = <<>>
    BY <1>1, <1>7 DEF OneCall, OldMail, Calling
  <2>6. /\ signaling'["caller"] = "stable" /\ chain'["caller"] = <<>> /\ waiting'["caller"] = <<"answer">>
        /\ signaling'["callee"] = signaling["callee"] /\ chain'["callee"] = chain["callee"]
        /\ waiting'["callee"] = waiting["callee"]
        /\ settled'["caller"] = IsAnswered(Bid) /\ settled'["callee"] = settled["callee"]
    BY <1>2, <2>1, <2>3, <2>4 DEF OnSides, Side
  <2>7. CallerShape' /\ ~Calling' /\ ~CallUnsent' /\ ~CallBack' /\ ~BidTaken' /\ ~BidApplied' /\ BidGiven'
    BY <2>6, OneLong, TwoLong DEF CallerShape, Calling, CallUnsent, CallBack, BidTaken, BidApplied, BidGiven
  <2>8. CalleeShape' /\ CalleeSame /\ MailShape' /\ PostSame
    BY <1>2, <2>1, <2>3, <2>6, CalleeRests, PostRests
  <2>9. MailAt(old, back, bid)'
    BY <1>1, <2>1, <2>3, <2>5 DEF MailAt, Bid
  <2>10. OldMail(old)' /\ OneCall(back)'
    BY <2>5, <2>7, <2>8 DEF OldMail, OneCall, CalleeSame, PostSame
  <2>11. OneBid(bid)'
    <3>1. Bid' = Bid
      BY <2>3 DEF Bid
    <3> QED
      BY <2>4, <2>6, <2>7, <2>8, <3>1 DEF OneBid, CalleeSame, PostSame
  <2>12. Agreement'
    <3>1. \A p \in Side : settled'[p].offer = settled'[p].answered
      BY <2>6, Apart DEF NegotiationInv, Agreement, Side
    <3> QED
      BY <2>4, <2>8, <3>1 DEF Agreement, CalleeSame
  <2> QED
    BY <1>2, <2>7, <2>8, <2>9, <2>10, <2>11, <2>12 DEF NegotiationInv
<1> QED
  BY <1>2, <1>3, <1>4, <1>5, <1>6, <1>7 DEF CallerShape

-----------------------------------------------------------------------------
LEMMA CallerSendsOffer ==
  ASSUME NegotiationInv, DigestsInOrder, SendOffer("caller")
  PROVE  NegotiationInv'
<1>1. PICK old, back, bid : MailAt(old, back, bid) /\ OldMail(old) /\ OneCall(back) /\ OneBid(bid)
  BY DEF NegotiationInv
<1>2. CallerShape /\ CalleeShape /\ MailShape /\ OnSides /\ "caller" \in Side /\ "callee" \in Side
  BY DEF NegotiationInv, Side
<1>3. /\ waiting["caller"] # <<>> /\ Head(waiting["caller"]) = "offer"
      /\ waiting' = [waiting EXCEPT !["caller"] = Tail(waiting["caller"])]
  BY <1>2, Waits, FirstDigest DEF SendOffer
<1>4. waiting["caller"] = <<"offer">> /\ signaling["caller"] = "have-local-offer"
  BY <1>2, <1>3, OneLong, TwoLong DEF CallerShape
<1>5. waiting'["caller"] = <<>> /\ waiting'["callee"] = waiting["callee"]
  BY <1>2, <1>3, <1>4, OneLong DEF OnSides
<1>6. LocalDescription("caller") = Offer(Called)
  BY <1>4 DEF LocalDescription, Offer, Called
<1>7. /\ relayed' = [relayed EXCEPT !["callee"] = Append(relayed["callee"], Offer(Called))]
      /\ making' = [making EXCEPT !["caller"] = FALSE]
      /\ UNCHANGED <<signaling, pending, settled, chain>>
  <2>1. LocalDescription("caller").type = "offer"
    BY <1>6, Apart
  <2> QED
    BY <1>6, <2>1 DEF SendOffer, Relay, Peer
<1>8. OnSides' /\ Called' = Called /\ Bid' = Bid
  BY <1>2, <1>3, <1>7 DEF OnSides, Called, Bid
<1>9. /\ CallUnsent /\ Calling /\ ~CallPosted /\ ~CallTaken /\ ~CallApplied /\ ~CallGiven /\ back = <<>> /\ ~CallBack
      /\ ~BidGiven /\ old = <<>>
  BY <1>1, <1>4, Lengths DEF CallUnsent, BidGiven, OneCall, OldMail
<1>10. relayed["callee"] \in {<<>>, <<Answer(Bid)>>}
  BY <1>2, <1>9 DEF MailShape, CallPosted
<1>11. relayed'["callee"] = Append(relayed["callee"], Offer(Called)) /\ relayed'["caller"] = relayed["caller"]
  BY <1>2, <1>7 DEF OnSides
<1>12. \/ relayed["callee"] = <<>> /\ relayed'["callee"] = <<Offer(Called)>>
       \/ relayed["callee"] = <<Answer(Bid)>> /\ relayed'["callee"] = <<Answer(Bid), Offer(Called)>>
  BY <1>10, <1>11, OneLong, TwoLong
<1>13. MailShape' /\ CallPosted'
  BY <1>8, <1>12 DEF MailShape, CallPosted
<1>14. BidReturned' <=> BidReturned
  <2>1. CASE relayed["callee"] = <<>>
    <3>1. relayed'["callee"] = <<Offer(Called)>>
      BY <1>12, <2>1, Lengths
    <3> QED
      BY <1>8, <2>1, <3>1, Lengths, Differ DEF BidReturned
  <2>2. CASE relayed["callee"] = <<Answer(Bid)>>
    <3>1. relayed'["callee"] = <<Answer(Bid), Offer(Called)>>
      BY <1>12, <2>2, Lengths
    <3> QED
      BY <1>8, <2>2, <3>1 DEF BidReturned
  <2> QED
    BY <1>10, <2>1, <2>2
<1>15. /\ CallerShape' /\ Calling' /\ ~CallUnsent' /\ ~BidGiven'
       /\ (CallBack' <=> CallBack) /\ (BidTaken' <=> BidTaken) /\ (BidApplied' <=> BidApplied)
  BY <1>2, <1>4, <1>5, <1>7, <1>8, Lengths DEF CallerShape, Calling, CallUnsent, BidGiven, CallBack, BidTaken, BidApplied
<1>16. CalleeShape' /\ CalleeSame
  BY <1>2, <1>5, <1>7, CalleeRests
<1>17. MailAt(old, back, bid)'
  BY <1>1, <1>8, <1>11 DEF MailAt
<1>18. OldMail(old)' /\ OneCall(back)'
  BY <1>9, <1>13, <1>15, <1>16 DEF OldMail, OneCall, CalleeSame
<1>19. OneBid(bid)'
  BY <1>1, <1>7, <1>8, <1>9, <1>14, <1>15, <1>16 DEF OneBid, CalleeSame
<1>20. Agreement'
  BY <1>7, <1>15 DEF NegotiationInv, Agreement
<1> QED
  BY <1>8, <1>13, <1>15, <1>16, <1>17, <1>18, <1>19, <1>20 DEF NegotiationInv

(* A side that has made an offer since sends that instead of its answer, and  *)
(* the server relays no offer under the event of an answer.                  *)
LEMMA CallerSendsAnswer ==
  ASSUME NegotiationInv, DigestsInOrder, SendAnswer("caller")
  PROVE  NegotiationInv'
<1>1. PICK old, back, bid : MailAt(old, back, bid) /\ OldMail(old) /\ OneCall(back) /\ OneBid(bid)
  BY DEF NegotiationInv
<1>2. CallerShape /\ CalleeShape /\ MailShape /\ OnSides /\ "caller" \in Side /\ "callee" \in Side
  BY DEF NegotiationInv, Side
<1>3. /\ waiting["caller"] # <<>> /\ Head(waiting["caller"]) = "answer"
      /\ waiting' = [waiting EXCEPT !["caller"] = Tail(waiting["caller"])]
  BY <1>2, Waits, FirstDigest DEF SendAnswer
<1>4. BidGiven /\ waiting["caller"] \in {<<"answer">>, <<"answer", "offer">>}
  BY <1>2, <1>3, OneLong, TwoLong DEF CallerShape, BidGiven
<1>5. /\ Bidding /\ settled["caller"] = IsAnswered(Bid) /\ ~BidReturned /\ ~BidBack /\ bid = <<>>
      /\ ~BidUnsent /\ ~BidTaken /\ ~BidApplied /\ ~CallPosted /\ ~CallTaken /\ ~CallApplied /\ ~CallGiven
      /\ back = <<>> /\ ~CallBack
  BY <1>1, <1>4 DEF OneBid, OneCall
<1>6. waiting'["caller"] = Tail(waiting["caller"]) /\ waiting'["callee"] = waiting["callee"]
  BY <1>2, <1>3 DEF OnSides
<1>7. /\ UNCHANGED <<signaling, pending, settled, chain, making>>
      /\ Called' = Called /\ Bid' = Bid
  BY DEF SendAnswer, Called, Bid
<1>8. CalleeShape' /\ CalleeSame
  BY <1>2, <1>6, <1>7, CalleeRests
<1>9. Agreement'
  BY <1>7 DEF NegotiationInv, Agreement, Calling, Bidding
<1>10. CASE signaling["caller"] = "stable"
  <2>1. waiting["caller"] = <<"answer">> /\ waiting'["caller"] = <<>>
    <3>1. waiting["caller"] = <<"answer">>
      BY <1>2, <1>4, <1>10, Lengths DEF CallerShape
    <3> QED
      BY <1>6, <3>1, OneLong
  <2>2. LocalDescription("caller") = Answer(Bid)
    BY <1>5, <1>10, Apart DEF LocalDescription, Answer
  <2>3. relayed' = [relayed EXCEPT !["callee"] = Append(relayed["callee"], Answer(Bid))]
    <3>1. LocalDescription("caller").type = "answer"
      BY <2>2, Apart
    <3> QED
      BY <2>2, <3>1 DEF SendAnswer, Relay, Peer
  <2>4. relayed["callee"] = <<>>
    BY <1>2, <1>5 DEF MailShape, CallPosted, BidReturned
  <2>5. relayed'["callee"] = <<Answer(Bid)>> /\ relayed'["caller"] = relayed["caller"]
    BY <1>2, <2>3, <2>4, OneLong DEF OnSides
  <2>6. OnSides'
    BY <1>2, <1>3, <1>7, <2>3 DEF OnSides
  <2>7. MailShape' /\ ~CallPosted' /\ BidReturned'
    BY <1>7, <2>5, Lengths, Apart DEF MailShape, CallPosted, BidReturned
  <2>8. /\ CallerShape' /\ ~Calling' /\ ~CallUnsent' /\ ~BidGiven'
        /\ (CallBack' <=> CallBack) /\ (BidTaken' <=> BidTaken) /\ (BidApplied' <=> BidApplied)
    BY <1>2, <1>7, <1>10, <2>1, Lengths DEF CallerShape, Calling, CallUnsent, BidGiven, CallBack, BidTaken, BidApplied
  <2>9. ~Calling /\ old = <<>>
    BY <1>1, <1>10 DEF OldMail, Calling
  <2>10. MailAt(old, back, bid)'
    BY <1>1, <1>7, <2>5 DEF MailAt
  <2>11. OldMail(old)' /\ OneCall(back)'
    BY <1>5, <1>8, <2>7, <2>8, <2>9 DEF OldMail, OneCall, CalleeSame
  <2>12. OneBid(bid)'
    BY <1>5, <1>7, <1>8, <2>7, <2>8 DEF OneBid, CalleeSame
  <2> QED
    BY <1>8, <1>9, <2>6, <2>7, <2>8, <2>10, <2>11, <2>12 DEF NegotiationInv
<1>11. CASE signaling["caller"] = "have-local-offer"
  <2>1. waiting["caller"] = <<"answer", "offer">> /\ waiting'["caller"] = <<"offer">>
    <3>1. waiting["caller"] = <<"answer", "offer">>
      BY <1>2, <1>4, <1>11, Lengths DEF CallerShape
    <3> QED
      BY <1>6, <3>1, TwoLong
  <2>2. LocalDescription("caller") = Offer(Called)
    BY <1>11 DEF LocalDescription, Offer, Called
  <2>3. UNCHANGED relayed
    BY <2>2, Apart DEF SendAnswer, Relay
  <2>4. OnSides'
    BY <1>2, <1>3, <1>7, <2>3 DEF OnSides
  <2>5. MailShape' /\ PostSame
    BY <1>2, <1>7, <2>3, PostRests
  <2>6. /\ CallerShape' /\ Calling' /\ Calling /\ CallUnsent' /\ CallUnsent /\ ~BidGiven'
        /\ (CallBack' <=> CallBack) /\ (BidTaken' <=> BidTaken) /\ (BidApplied' <=> BidApplied)
    BY <1>2, <1>7, <1>11, <2>1, Lengths DEF CallerShape, Calling, CallUnsent, BidGiven, CallBack, BidTaken, BidApplied
  <2>7. MailAt(old, back, bid)'
    BY <1>1, <1>7, <2>3 DEF MailAt
  <2>8. OldMail(old)' /\ OneCall(back)'
    BY <1>1, <1>5, <1>8, <2>5, <2>6 DEF OldMail, OneCall, CalleeSame, PostSame
  <2>9. OneBid(bid)'
    BY <1>5, <1>7, <1>8, <2>5, <2>6 DEF OneBid, CalleeSame, PostSame
  <2> QED
    BY <1>8, <1>9, <2>4, <2>5, <2>6, <2>7, <2>8, <2>9 DEF NegotiationInv
<1> QED
  BY <1>2, <1>4, <1>10, <1>11, Lengths DEF CallerShape

(* The mail of the caller is read from its old offers on. *)
LEMMA MailIsShort ==
  ASSUME NEW old, NEW back, NEW bid, MailAt(old, back, bid)
  PROVE  Short(old) /\ Short(back) /\ Short(bid)
BY DEF MailAt, Short

(* The caller ignores an old offer, takes the answer to its call, and takes  *)
(* the bid unless the offers collide.                                        *)
LEMMA CallerTakesSignal ==
  ASSUME NegotiationInv, TakeSignal("caller")
  PROVE  NegotiationInv'
<1>1. PICK old, back, bid : MailAt(old, back, bid) /\ OldMail(old) /\ OneCall(back) /\ OneBid(bid)
  BY DEF NegotiationInv
<1>2. CallerShape /\ CalleeShape /\ MailShape /\ OnSides /\ "caller" \in Side /\ "callee" \in Side
  BY DEF NegotiationInv, Side
<1>3. /\ signaling["caller"] # "new" /\ relayed["caller"] # <<>>
      /\ relayed' = [relayed EXCEPT !["caller"] = Tail(relayed["caller"])]
      /\ UNCHANGED <<signaling, pending, settled, making, waiting>>
  BY DEF TakeSignal
<1>4. relayed'["caller"] = Tail(relayed["caller"]) /\ relayed'["callee"] = relayed["callee"]
  BY <1>2, <1>3 DEF OnSides
<1>5. OnSides' /\ chain'["callee"] = chain["callee"]
  BY <1>2, <1>3 DEF OnSides, TakeSignal
<1>6. MailShape' /\ PostSame /\ CalleeShape' /\ CalleeSame
  BY <1>2, <1>3, <1>4, <1>5, PostRests, CalleeRests
<1>7. Called' = Called /\ Bid' = Bid /\ Agreement'
  BY <1>3 DEF Called, Bid, NegotiationInv, Agreement, Calling, Bidding
<1>8. relayed["caller"] = old \o back \o bid
  BY <1>1 DEF MailAt
<1>9. Short(old) /\ Short(back) /\ Short(bid)
  BY <1>1, MailIsShort
<1>10. CASE old # <<>>
  <2>1. PICK x : old = <<Offer(x)>>
    BY <1>1, <1>10 DEF MailAt
  <2>2. Head(relayed["caller"]) = Offer(x) /\ Tail(relayed["caller"]) = <<>> \o back \o bid
    BY <1>8, <1>9, <1>10, <2>1, Joined, OneLong
  <2>3. Calling
    BY <1>1, <1>10 DEF OldMail
  <2>4. UNCHANGED chain
    BY <2>2, <2>3, Apart DEF TakeSignal, IgnoresOffer, Polite, OfferCollision, Calling
  <2>5. CallerShape' /\ CallerSame
    BY <1>2, <1>3, <2>4, CallerRests
  <2>6. MailAt(<<>>, back, bid)'
    BY <1>1, <1>4, <1>7, <2>2 DEF MailAt
  <2>7. OldMail(<<>>)' /\ OneCall(back)'
    BY <1>1, <1>3, <1>6, <1>7, <2>5 DEF OldMail, OneCall, CallerSame, CalleeSame, PostSame
  <2>8. OneBid(bid)'
    BY <1>1, <1>3, <1>6, <1>7, <2>5 DEF OneBid, CallerSame, CalleeSame, PostSame
  <2> QED
    BY <1>5, <1>6, <1>7, <2>5, <2>6, <2>7, <2>8 DEF NegotiationInv
<1>11. CASE old = <<>> /\ back # <<>>
  <2>1. back = <<Answer(Called)>>
    BY <1>1, <1>11 DEF MailAt
  <2>2. Head(relayed["caller"]) = Answer(Called) /\ Tail(relayed["caller"]) = <<>> \o <<>> \o bid
    <3>1. CASE bid = <<>>
      <4>1. relayed["caller"] = <<Answer(Called)>> /\ <<>> \o <<>> \o bid = <<>>
        BY <1>8, <1>11, <2>1, <3>1, Joins
      <4> QED
        BY <4>1, OneLong
    <3>2. CASE bid = <<Offer(Bid)>>
      <4>1. relayed["caller"] = <<Answer(Called), Offer(Bid)>> /\ <<>> \o <<>> \o bid = <<Offer(Bid)>>
        BY <1>8, <1>11, <2>1, <3>2, Joins
      <4> QED
        BY <4>1, TwoLong
    <3> QED
      BY <1>1, <3>1, <3>2 DEF MailAt
  <2>3. /\ Calling /\ settled["callee"] = IsAnswered(Called) /\ ~CallBack /\ ~BidGiven /\ ~BidReturned /\ ~BidBack
        /\ ~CallUnsent /\ ~CallPosted /\ ~CallTaken /\ ~CallApplied /\ ~CallGiven
    BY <1>1, <1>11 DEF OneCall
  <2>4. chain["caller"] = <<>>
    BY <1>2, <2>3 DEF CallerShape, Calling, CallBack
  <2>5. chain' = [chain EXCEPT !["caller"] = <<Remote(Answer(Called))>>]
    <3>1. Append(chain["caller"], Remote(Answer(Called))) = <<Remote(Answer(Called))>>
      BY <2>4, OneLong
    <3>2. Answer(Called).type = "answer" /\ signaling["caller"] # "stable"
      BY <2>3, Apart DEF Calling
    <3>3. chain' = [chain EXCEPT !["caller"] = Append(chain["caller"], Remote(Answer(Called)))]
      BY <2>2, <3>2 DEF TakeSignal, Remote
    <3> QED
      BY <3>1, <3>3
  <2>6. chain'["caller"] = <<Remote(Answer(Called))>>
    BY <1>2, <2>5 DEF OnSides
  <2>7. CallBack' /\ Calling' /\ (CallUnsent' <=> CallUnsent) /\ (BidApplied' <=> BidApplied) /\ (BidGiven' <=> BidGiven)
    BY <1>3, <1>7, <2>3, <2>6 DEF CallBack, Calling, CallUnsent, BidApplied, BidGiven
  <2>8. ~BidTaken' /\ ~BidTaken
    BY <1>7, <2>4, <2>6, Lengths, Differ DEF BidTaken
  <2>9. CallerShape'
    BY <1>2, <1>3, <1>7, <2>3, <2>6, Lengths DEF CallerShape, Calling
  <2>10. MailAt(<<>>, <<>>, bid)'
    BY <1>1, <1>4, <1>7, <2>2 DEF MailAt
  <2>11. OldMail(<<>>)' /\ OneCall(<<>>)'
    BY <1>3, <1>6, <1>7, <2>3, <2>7 DEF OldMail, OneCall, CalleeSame, PostSame
  <2>12. OneBid(bid)'
    BY <1>1, <1>3, <1>6, <1>7, <2>7, <2>8 DEF OneBid, CalleeSame, PostSame
  <2> QED
    BY <1>5, <1>6, <1>7, <2>9, <2>10, <2>11, <2>12 DEF NegotiationInv
<1>12. CASE old = <<>> /\ back = <<>> /\ bid # <<>>
  <2>1. bid = <<Offer(Bid)>>
    BY <1>1, <1>12 DEF MailAt
  <2>2. Head(relayed["caller"]) = Offer(Bid) /\ Tail(relayed["caller"]) = <<>> \o <<>> \o <<>>
    BY <1>8, <1>9, <1>12, <2>1, Joined, OneLong
  <2>3. /\ Bidding /\ ~BidUnsent /\ ~BidTaken /\ ~BidApplied /\ ~BidGiven /\ ~BidReturned /\ ~BidBack
    BY <1>1, <1>12 DEF OneBid
  <2>4. MailAt(<<>>, <<>>, <<>>)'
    BY <1>1, <1>4, <1>7, <2>2 DEF MailAt
  <2>5. CASE OfferCollision("caller")
    <3>1. UNCHANGED chain
      BY <2>2, <2>5, Apart DEF TakeSignal, IgnoresOffer, Polite
    <3>2. CallerShape' /\ CallerSame
      BY <1>2, <1>3, <3>1, CallerRests
    <3>3. OldMail(<<>>)' /\ OneCall(<<>>)'
      BY <1>1, <1>3, <1>6, <1>7, <1>12, <3>2 DEF OldMail, OneCall, CallerSame, CalleeSame, PostSame
    <3>4. OneBid(<<>>)'
      BY <1>3, <1>6, <1>7, <2>3, <3>2 DEF OneBid, CallerSame, CalleeSame, PostSame
    <3> QED
      BY <1>5, <1>6, <1>7, <2>4, <3>2, <3>3, <3>4 DEF NegotiationInv
  <2>6. CASE ~OfferCollision("caller")
    <3>1. signaling["caller"] = "stable" /\ ~making["caller"]
      BY <2>6 DEF OfferCollision
    <3>2. chain["caller"] = <<>>
      BY <1>2, <2>3, <3>1 DEF CallerShape, BidTaken
    <3>3. chain' = [chain EXCEPT !["caller"] = <<Remote(Offer(Bid))>>]
      <4>1. Append(chain["caller"], Remote(Offer(Bid))) = <<Remote(Offer(Bid))>>
        BY <3>2, OneLong
      <4>2. Offer(Bid).type = "offer" /\ ~IgnoresOffer("caller")
        BY <2>6, Apart DEF IgnoresOffer
      <4>3. chain' = [chain EXCEPT !["caller"] = Append(chain["caller"], Remote(Offer(Bid)))]
        BY <2>2, <4>2 DEF TakeSignal, Remote
      <4> QED
        BY <4>1, <4>3
    <3>4. chain'["caller"] = <<Remote(Offer(Bid))>>
      BY <1>2, <3>3 DEF OnSides
    <3>5. /\ BidTaken' /\ (Calling' <=> Calling) /\ (CallUnsent' <=> CallUnsent)
          /\ (BidApplied' <=> BidApplied) /\ (BidGiven' <=> BidGiven)
      BY <1>3, <1>7, <3>4 DEF BidTaken, Calling, CallUnsent, BidApplied, BidGiven
    <3>6. ~CallBack' /\ ~CallBack
      BY <1>7, <3>2, <3>4, Lengths, Differ DEF CallBack
    <3>7. CallerShape'
      BY <1>2, <1>3, <1>7, <3>1, <3>4, Lengths DEF CallerShape
    <3>8. OldMail(<<>>)' /\ OneCall(<<>>)'
      BY <1>1, <1>3, <1>6, <1>7, <1>12, <3>5, <3>6 DEF OldMail, OneCall, CalleeSame, PostSame
    <3>9. OneBid(<<>>)'
      BY <1>3, <1>6, <1>7, <2>3, <3>5 DEF OneBid, CalleeSame, PostSame
    <3> QED
      BY <1>5, <1>6, <1>7, <2>4, <3>7, <3>8, <3>9 DEF NegotiationInv
  <2> QED
    BY <2>5, <2>6
<1> QED
  BY <1>3, <1>8, <1>9, <1>10, <1>11, <1>12, Joined

-----------------------------------------------------------------------------
(* The callee's connection makes an offer, applies the call and rolls its    *)
(* own offer back, takes the answer to the bid, or answers the call.         *)
LEMMA CalleeOperates ==
  ASSUME NegotiationInv, Operate("callee")
  PROVE  NegotiationInv'
<1>1. PICK old, back, bid : MailAt(old, back, bid) /\ OldMail(old) /\ OneCall(back) /\ OneBid(bid)
  BY DEF NegotiationInv
<1>2. CallerShape /\ CalleeShape /\ MailShape /\ OnSides /\ OnSides' /\ "caller" \in Side /\ "callee" \in Side
  BY OperateKeepsDomains DEF NegotiationInv, Side
<1>3. chain["callee"] # <<>>
  BY DEF Operate
<1>4. CASE signaling["callee"] = "stable" /\ chain["callee"] \in
            {<<Local("offer")>>, <<Local("offer"), Remote(Offer(Called))>>}
  <2>1. Head(chain["callee"]) = Local("offer") /\ Tail(chain["callee"]) \in {<<>>, <<Remote(Offer(Called))>>}
    <3>1. CASE chain["callee"] = <<Local("offer")>>
      BY <3>1, OneLong
    <3>2. CASE chain["callee"] = <<Local("offer"), Remote(Offer(Called))>>
      BY <3>2, TwoLong
    <3> QED
      BY <1>4, <3>1, <3>2
  <2>2. /\ SetLocal("callee", "offer") /\ UNCHANGED <<making, relayed>>
        /\ chain' = [chain EXCEPT !["callee"] = Tail(chain["callee"])]
    BY <1>2, <2>1, LocalOperation
  <2>3. /\ signaling' = [signaling EXCEPT !["callee"] = "have-local-offer"]
        /\ pending' = [pending EXCEPT !["callee"] = offers + 1]
        /\ waiting' = [waiting EXCEPT !["callee"] = Append(waiting["callee"], "offer")]
        /\ UNCHANGED settled
    BY <1>4, <2>2 DEF SetLocal, Await
  <2>4. waiting["callee"] \in {<<>>, <<"answer">>}
    BY <1>2, <1>4 DEF CalleeShape
  <2>5. /\ signaling'["callee"] = "have-local-offer" /\ chain'["callee"] = Tail(chain["callee"])
        /\ waiting'["callee"] = Append(waiting["callee"], "offer")
        /\ signaling'["caller"] = signaling["caller"] /\ chain'["caller"] = chain["caller"]
        /\ waiting'["caller"] = waiting["caller"] /\ Called' = Called
    BY <1>2, <2>2, <2>3 DEF OnSides, Called, Side
  <2>6. /\ waiting["callee"] = <<>> => waiting'["callee"] = <<"offer">>
        /\ waiting["callee"] = <<"answer">> => waiting'["callee"] = <<"answer", "offer">>
    BY <2>5, OneLong, TwoLong
  <2>7. ~Bidding /\ ~BidUnsent /\ bid = <<>> /\ ~BidTaken /\ ~BidApplied /\ ~BidGiven /\ ~BidReturned /\ ~BidBack
    <3>1. ~Bidding /\ ~BidUnsent
      BY <1>4 DEF Bidding, BidUnsent
    <3> QED
      BY <1>1, <3>1 DEF OneBid
  <2>8. relayed["callee"] \in {<<>>, <<Offer(Called)>>}
    BY <1>2, <2>7 DEF MailShape, BidReturned
  <2>9. /\ CallerShape' /\ (Calling' <=> Calling) /\ (CallUnsent' <=> CallUnsent) /\ (CallBack' <=> CallBack)
        /\ ~BidTaken' /\ ~BidApplied' /\ ~BidGiven'
    <3>1. chain["caller"] \in {<<>>, <<Local("offer")>>, <<Remote(Answer(Called))>>, <<Local("answer")>>}
      BY <1>2, <2>7 DEF CallerShape, BidTaken
    <3>2. ~BidTaken'
      <4>1. /\ <<Remote(Offer(Bid'))>> # <<>> /\ <<Remote(Offer(Bid'))>> # <<Remote(Answer(Called))>>
            /\ <<Remote(Offer(Bid'))>> # <<Local("offer")>> /\ <<Remote(Offer(Bid'))>> # <<Local("answer")>>
        BY Lengths, Differ
      <4> QED
        BY <2>5, <3>1, <4>1 DEF BidTaken
    <3>3. making'["caller"] = making["caller"]
      BY <2>2
    <3>4. CallerShape'
      BY <1>2, <2>5, <2>7, <3>3 DEF CallerShape, BidTaken, BidApplied
    <3> QED
      BY <2>5, <2>7, <3>2, <3>4 DEF Calling, CallUnsent, CallBack, BidApplied, BidGiven
  <2>10. /\ chain["callee"] = <<Local("offer")>> => chain'["callee"] = <<>>
         /\ chain["callee"] = <<Local("offer"), Remote(Offer(Called))>> => chain'["callee"] = <<Remote(Offer(Called))>>
    <3>1. chain["callee"] = <<Local("offer")>> => Tail(chain["callee"]) = <<>>
      BY OneLong
    <3>2. chain["callee"] = <<Local("offer"), Remote(Offer(Called))>> => Tail(chain["callee"]) = <<Remote(Offer(Called))>>
      BY TwoLong
    <3> QED
      BY <2>5, <3>1, <3>2
  <2>11. CallTaken' <=> CallTaken
    <3>1. CASE chain["callee"] = <<Local("offer")>>
      <4>1. chain'["callee"] = <<>>
        BY <2>10, <3>1
      <4> QED
        BY <3>1, <4>1, Lengths, Differ DEF CallTaken
    <3>2. CASE chain["callee"] = <<Local("offer"), Remote(Offer(Called))>>
      <4>1. chain'["callee"] = <<Remote(Offer(Called))>>
        BY <2>10, <3>2
      <4> QED
        BY <2>5, <3>2, <4>1 DEF CallTaken
    <3> QED
      BY <1>4, <3>1, <3>2
  <2>12. CalleeShape' /\ Bidding' /\ BidUnsent' /\ ~CallApplied' /\ ~CallApplied
    <3>1. chain'["callee"] \in {<<>>, <<Remote(Offer(Called'))>>}
      BY <1>4, <2>5, <2>10
    <3>2. waiting'["callee"] \in {<<"offer">>, <<"answer", "offer">>}
      BY <2>4, <2>6
    <3> QED
      BY <1>4, <2>5, <3>1, <3>2 DEF CalleeShape, Bidding, BidUnsent, CallApplied
  <2>13. CallGiven' <=> CallGiven
    <3>1. CASE waiting["callee"] = <<>>
      <4>1. waiting'["callee"] = <<"offer">>
        BY <2>6, <3>1
      <4> QED
        BY <3>1, <4>1, Lengths DEF CallGiven
    <3>2. CASE waiting["callee"] = <<"answer">>
      <4>1. waiting'["callee"] = <<"answer", "offer">>
        BY <2>6, <3>2
      <4> QED
        BY <3>2, <4>1 DEF CallGiven
    <3> QED
      BY <2>4, <3>1, <3>2
  <2>14. ~BidBack'
    BY <1>4, <2>10, Lengths, Differ DEF BidBack
  <2>15. MailShape' /\ (CallPosted' <=> CallPosted) /\ ~BidReturned'
    <3>1. relayed'["callee"] \in {<<>>, <<Offer(Called')>>} /\ relayed'["callee"] = relayed["callee"]
      BY <2>2, <2>5, <2>8
    <3>2. MailShape' /\ ~BidReturned'
      BY <3>1, Lengths, Differ DEF MailShape, BidReturned
    <3>3. CallPosted <=> relayed["callee"] = <<Offer(Called)>>
      BY <2>8, Lengths, Differ DEF CallPosted
    <3>4. CallPosted' <=> relayed'["callee"] = <<Offer(Called')>>
      BY <3>1, Lengths, Differ DEF CallPosted
    <3> QED
      BY <2>5, <3>1, <3>2, <3>3, <3>4
  <2>16. MailAt(old, back, bid)'
    BY <1>1, <2>2, <2>5, <2>7 DEF MailAt
  <2>17. OldMail(old)'
    <3>1. waiting'["callee"] # <<"offer", "reply">>
      BY <2>4, <2>6, Lengths
    <3> QED
      BY <1>1, <2>9, <2>11, <2>15, <3>1 DEF OldMail
  <2>18. OneCall(back)'
    BY <1>1, <2>3, <2>5, <2>7, <2>9, <2>11, <2>12, <2>13, <2>14, <2>15 DEF OneCall
  <2>19. OneBid(bid)'
    BY <2>7, <2>9, <2>12, <2>14, <2>15 DEF OneBid
  <2>20. Agreement'
    BY <2>3, <2>12 DEF NegotiationInv, Agreement
  <2> QED
    BY <1>2, <2>9, <2>12, <2>15, <2>16, <2>17, <2>18, <2>19, <2>20 DEF NegotiationInv
<1>5. CASE signaling["callee"] \in {"stable", "have-local-offer"} /\ chain["callee"] = <<Remote(Offer(Called))>>
  <2>1. /\ SetRemoteOffer("callee", Called) /\ UNCHANGED <<making, relayed>>
        /\ chain' = [chain EXCEPT !["callee"] = <<>>]
    <3>1. Head(chain["callee"]) = Remote(Offer(Called)) /\ Tail(chain["callee"]) = <<>>
      BY <1>5, OneLong
    <3>2. Offer(Called).type = "offer" /\ Offer(Called).offer = Called
      BY Apart
    <3> QED
      BY <1>2, <3>1, <3>2, RemoteOperation
  <2>2. /\ CallTaken /\ Calling /\ ~CallApplied /\ ~CallGiven /\ back = <<>> /\ ~CallBack /\ ~BidGiven /\ ~BidReturned
        /\ ~CallUnsent /\ ~CallPosted /\ old = <<>>
    BY <1>1, <1>5 DEF CallTaken, OneCall, OldMail
  <2>3. /\ signaling' = [signaling EXCEPT !["callee"] = "have-remote-offer"]
        /\ pending' = [pending EXCEPT !["callee"] = Called]
        /\ waiting' = [waiting EXCEPT !["callee"] = Append(waiting["callee"], "reply")]
        /\ UNCHANGED settled
    BY <2>1 DEF SetRemoteOffer, Await
  <2>4. /\ signaling'["callee"] = "have-remote-offer" /\ chain'["callee"] = <<>>
        /\ waiting'["callee"] = Append(waiting["callee"], "reply")
        /\ signaling'["caller"] = signaling["caller"] /\ chain'["caller"] = chain["caller"]
        /\ waiting'["caller"] = waiting["caller"] /\ Called' = Called /\ Bid' = Called
    BY <1>2, <2>1, <2>3 DEF OnSides, Called, Bid, Side
  <2>5. waiting["callee"] = <<>> \/ (waiting["callee"] = <<"offer">> /\ BidUnsent)
    BY <1>2, <1>5, <2>2 DEF CalleeShape, CallGiven, BidUnsent, Bidding
  <2>6. \/ waiting["callee"] = <<>> /\ waiting'["callee"] = <<"reply">>
        \/ waiting["callee"] = <<"offer">> /\ BidUnsent /\ waiting'["callee"] = <<"offer", "reply">>
    BY <2>4, <2>5, OneLong, TwoLong
  <2>7. signaling["caller"] = "have-local-offer" /\ ~BidApplied /\ chain["caller"] = <<>>
    BY <1>2, <2>2 DEF Calling, BidApplied, CallerShape, CallBack
  <2>8. relayed["callee"] = <<>>
    BY <1>2, <2>2 DEF MailShape, CallPosted, BidReturned
  <2>9. MailShape' /\ ~CallPosted' /\ ~BidReturned'
    BY <2>1, <2>8, Lengths DEF MailShape, CallPosted, BidReturned
  <2>10. /\ CallerShape' /\ Calling' /\ ~CallUnsent' /\ ~CallBack' /\ ~BidTaken' /\ ~BidApplied' /\ ~BidGiven'
    <3>1. ~CallBack' /\ ~BidTaken'
      BY <2>4, <2>7, Lengths DEF CallBack, BidTaken
    <3>2. CallerShape'
      BY <1>2, <2>4, <2>7 DEF CallerShape
    <3> QED
      BY <2>2, <2>4, <2>7, <3>1, <3>2 DEF Calling, CallUnsent, BidApplied, BidGiven
  <2>11. CalleeShape' /\ ~Bidding' /\ ~BidUnsent' /\ ~CallTaken' /\ CallApplied' /\ ~CallGiven' /\ ~BidBack'
    <3>1. ~CallTaken' /\ ~BidBack'
      BY <2>4, Lengths DEF CallTaken, BidBack
    <3>2. ~CallGiven'
      BY <2>6, Lengths DEF CallGiven
    <3> QED
      BY <2>4, <2>6, <3>1, <3>2 DEF CalleeShape, Bidding, BidUnsent, CallApplied
  <2>12. MailAt(bid, <<>>, <<>>)'
    <3>1. Short(old) /\ Short(back) /\ Short(bid)
      BY <1>1, MailIsShort
    <3>2. old = <<>> /\ back = <<>> => bid \o back \o old = old \o back \o bid
      BY <3>1, Joined
    <3>3. relayed'["caller"] = bid \o <<>> \o <<>>
      BY <1>1, <2>1, <2>2, <3>2 DEF MailAt
    <3> QED
      BY <1>1, <3>3 DEF MailAt
  <2>13. OldMail(bid)'
    <3>1. bid # <<>> => ~BidUnsent
      BY <1>1 DEF OneBid
    <3>2. bid # <<>> => waiting'["callee"] # <<"offer", "reply">>
      BY <2>6, <3>1, Lengths
    <3> QED
      BY <2>9, <2>10, <2>11, <3>2 DEF OldMail
  <2>14. OneCall(<<>>)'
    BY <2>4, <2>9, <2>10, <2>11 DEF OneCall
  <2>15. OneBid(<<>>)'
    BY <2>9, <2>10, <2>11 DEF OneBid
  <2>16. Agreement'
    BY <2>3, <2>10 DEF NegotiationInv, Agreement
  <2> QED
    BY <1>2, <2>9, <2>10, <2>11, <2>12, <2>13, <2>14, <2>15, <2>16 DEF NegotiationInv
<1>6. CASE signaling["callee"] = "have-local-offer" /\ chain["callee"] \in
            {<<Remote(Answer(Bid))>>, <<Remote(Answer(Bid)), Remote(Offer(Called))>>}
  <2>1. Head(chain["callee"]) = Remote(Answer(Bid)) /\ Tail(chain["callee"]) \in {<<>>, <<Remote(Offer(Called))>>}
    <3>1. CASE chain["callee"] = <<Remote(Answer(Bid))>>
      BY <3>1, OneLong
    <3>2. CASE chain["callee"] = <<Remote(Answer(Bid)), Remote(Offer(Called))>>
      BY <3>2, TwoLong
    <3> QED
      BY <1>6, <3>1, <3>2
  <2>2. /\ SetRemoteAnswer("callee", Bid) /\ UNCHANGED <<making, relayed>>
        /\ chain' = [chain EXCEPT !["callee"] = Tail(chain["callee"])]
    <3>1. Answer(Bid).type = "answer" /\ Answer(Bid).offer = Bid
      BY Apart
    <3> QED
      BY <1>2, <2>1, <3>1, RemoteOperation
  <2>3. /\ signaling' = [signaling EXCEPT !["callee"] = "stable"]
        /\ settled' = [settled EXCEPT !["callee"] = [type |-> "offer", offer |-> Bid, answered |-> Bid]]
        /\ UNCHANGED <<pending, waiting>>
    BY <1>6, <2>2 DEF SetRemoteAnswer, Bid
  <2>4. /\ BidBack /\ Bidding /\ settled["caller"] = IsAnswered(Bid) /\ ~BidUnsent /\ bid = <<>> /\ ~BidTaken
        /\ ~BidApplied /\ ~BidGiven /\ ~BidReturned
    BY <1>1, <1>6 DEF BidBack, OneBid
  <2>5. ~CallApplied /\ ~CallGiven /\ back = <<>> /\ ~CallBack
    BY <1>1, <2>4 DEF OneCall
  <2>6. waiting["callee"] = <<>>
    BY <1>2, <1>6, <2>4 DEF CalleeShape, BidUnsent, Bidding
  <2>7. /\ signaling'["callee"] = "stable" /\ chain'["callee"] = Tail(chain["callee"]) /\ waiting'["callee"] = <<>>
        /\ signaling'["caller"] = signaling["caller"] /\ chain'["caller"] = chain["caller"]
        /\ waiting'["caller"] = waiting["caller"]
        /\ settled'["callee"].offer = Bid /\ settled'["callee"].answered = Bid
        /\ settled'["caller"] = settled["caller"] /\ Called' = Called /\ Bid' = Bid
    BY <1>2, <2>2, <2>3, <2>6 DEF OnSides, Side, Called, Bid
  <2>8. CallerShape' /\ CallerSame /\ MailShape' /\ PostSame
    BY <1>2, <2>2, <2>3, <2>7, CallerRests, PostRests
  <2>9. /\ chain["callee"] = <<Remote(Answer(Bid))>> => chain'["callee"] = <<>>
        /\ chain["callee"] = <<Remote(Answer(Bid)), Remote(Offer(Called))>> => chain'["callee"] = <<Remote(Offer(Called))>>
    <3>1. chain["callee"] = <<Remote(Answer(Bid))>> => Tail(chain["callee"]) = <<>>
      BY OneLong
    <3>2. chain["callee"] = <<Remote(Answer(Bid)), Remote(Offer(Called))>> => Tail(chain["callee"]) = <<Remote(Offer(Called))>>
      BY TwoLong
    <3> QED
      BY <2>7, <3>1, <3>2
  <2>10. (CallTaken' <=> CallTaken) /\ ~BidBack'
    <3>1. CASE chain["callee"] = <<Remote(Answer(Bid))>>
      <4>1. chain'["callee"] = <<>>
        BY <2>9, <3>1
      <4> QED
        BY <3>1, <4>1, Lengths, Differ DEF CallTaken, BidBack
    <3>2. CASE chain["callee"] = <<Remote(Answer(Bid)), Remote(Offer(Called))>>
      <4>1. chain'["callee"] = <<Remote(Offer(Called))>>
        BY <2>9, <3>2
      <4> QED
        BY <2>7, <3>2, <4>1, Lengths, Differ DEF CallTaken, BidBack
    <3> QED
      BY <1>6, <3>1, <3>2
  <2>11. CalleeShape' /\ ~Bidding' /\ ~BidUnsent' /\ ~CallApplied' /\ ~CallGiven'
    <3>1. chain'["callee"] \in {<<>>, <<Remote(Offer(Called'))>>}
      BY <1>6, <2>7, <2>9
    <3> QED
      BY <2>7, <3>1, Lengths DEF CalleeShape, Bidding, BidUnsent, CallApplied, CallGiven
  <2>12. MailAt(old, back, bid)'
    BY <1>1, <2>2, <2>7 DEF MailAt
  <2>13. OldMail(old)'
    <3>1. waiting'["callee"] # <<"offer", "reply">>
      BY <2>7, Lengths
    <3> QED
      BY <1>1, <2>8, <2>10, <3>1 DEF OldMail, CallerSame, PostSame
  <2>14. OneCall(back)'
    BY <1>1, <2>5, <2>8, <2>10, <2>11 DEF OneCall, CallerSame, PostSame
  <2>15. OneBid(bid)'
    BY <2>4, <2>8, <2>10, <2>11 DEF OneBid, CallerSame, PostSame
  <2>16. Agreement'
    BY <2>4, <2>7, Apart DEF NegotiationInv, Agreement, Side
  <2> QED
    BY <1>2, <2>8, <2>11, <2>12, <2>13, <2>14, <2>15, <2>16 DEF NegotiationInv
<1>7. CASE signaling["callee"] = "have-remote-offer" /\ chain["callee"] = <<Local("answer")>>
  <2>1. /\ SetLocal("callee", "answer") /\ UNCHANGED <<making, relayed>>
        /\ chain' = [chain EXCEPT !["callee"] = <<>>]
    <3>1. Head(chain["callee"]) = Local("answer") /\ Tail(chain["callee"]) = <<>>
      BY <1>7, OneLong
    <3> QED
      BY <1>2, <3>1, LocalOperation
  <2>2. waiting["callee"] = <<>>
    BY <1>2, <1>7, OneLong DEF CalleeShape
  <2>3. /\ signaling' = [signaling EXCEPT !["callee"] = "stable"]
        /\ settled' = [settled EXCEPT !["callee"] = IsAnswered(Bid)]
        /\ waiting' = [waiting EXCEPT !["callee"] = <<"answer">>]
        /\ UNCHANGED pending
    BY <1>7, <2>1, <2>2, OneLong DEF SetLocal, Await, Bid, IsAnswered
  <2>4. /\ CallApplied /\ Calling /\ Called = Bid /\ back = <<>> /\ ~CallBack /\ ~BidGiven /\ ~BidReturned
        /\ ~BidBack /\ ~CallUnsent /\ ~CallPosted /\ ~CallTaken
    BY <1>1, <1>7 DEF CallApplied, OneCall
  <2>5. ~Bidding /\ bid = <<>> /\ ~BidTaken /\ ~BidApplied
    BY <1>1, <1>7 DEF OneBid, Bidding
  <2>6. /\ signaling'["callee"] = "stable" /\ chain'["callee"] = <<>> /\ waiting'["callee"] = <<"answer">>
        /\ signaling'["caller"] = signaling["caller"] /\ chain'["caller"] = chain["caller"]
        /\ waiting'["caller"] = waiting["caller"] /\ Called' = Called /\ Bid' = Bid
        /\ settled'["callee"] = IsAnswered(Called) /\ settled'["caller"] = settled["caller"]
    BY <1>2, <2>1, <2>3, <2>4 DEF OnSides, Side, Called, Bid
  <2>7. CallerShape' /\ CallerSame /\ MailShape' /\ PostSame
    BY <1>2, <2>1, <2>3, <2>6, CallerRests, PostRests
  <2>8. /\ CalleeShape' /\ ~Bidding' /\ ~BidUnsent' /\ ~CallTaken' /\ ~CallApplied' /\ CallGiven' /\ ~BidBack'
        /\ waiting'["callee"] # <<"offer", "reply">>
    <3>1. ~CallTaken' /\ ~BidBack' /\ waiting'["callee"] # <<"offer", "reply">>
      BY <2>6, Lengths DEF CallTaken, BidBack
    <3> QED
      BY <2>6, <3>1 DEF CalleeShape, Bidding, BidUnsent, CallApplied, CallGiven
  <2>9. MailAt(old, back, bid)'
    BY <1>1, <2>1, <2>6 DEF MailAt
  <2>10. OldMail(old)' /\ OneCall(back)'
    BY <2>4, <2>6, <2>7, <2>8 DEF OldMail, OneCall, CallerSame, PostSame
  <2>11. OneBid(bid)'
    BY <2>4, <2>5, <2>7, <2>8 DEF OneBid, CallerSame, PostSame
  <2>12. Agreement'
    <3>1. \A p \in Side : settled'[p].offer = settled'[p].answered
      BY <2>6, Apart DEF NegotiationInv, Agreement, Side
    <3> QED
      BY <2>4, <2>7, <3>1 DEF Agreement, CallerSame
  <2> QED
    BY <1>2, <2>7, <2>8, <2>9, <2>10, <2>11, <2>12 DEF NegotiationInv
<1> QED
  BY <1>2, <1>3, <1>4, <1>5, <1>6, <1>7 DEF CalleeShape

(* The digest may belong to an offer that was rolled back meanwhile: what is *)
(* sent then is the last offer the callee has completed, an old one.         *)
LEMMA CalleeSendsOffer ==
  ASSUME NegotiationInv, DigestsInOrder, SendOffer("callee")
  PROVE  NegotiationInv'
<1>1. PICK old, back, bid : MailAt(old, back, bid) /\ OldMail(old) /\ OneCall(back) /\ OneBid(bid)
  BY DEF NegotiationInv
<1>2. CallerShape /\ CalleeShape /\ MailShape /\ OnSides /\ "caller" \in Side /\ "callee" \in Side
  BY DEF NegotiationInv, Side
<1>3. /\ waiting["callee"] # <<>> /\ Head(waiting["callee"]) = "offer"
      /\ waiting' = [waiting EXCEPT !["callee"] = Tail(waiting["callee"])]
  BY <1>2, Waits, FirstDigest DEF SendOffer
<1>4. \/ waiting["callee"] = <<"offer">> /\ signaling["callee"] = "have-local-offer"
      \/ waiting["callee"] = <<"offer", "reply">> /\ signaling["callee"] = "have-remote-offer"
  BY <1>2, <1>3, OneLong, TwoLong DEF CalleeShape
<1>5. waiting'["callee"] = Tail(waiting["callee"]) /\ waiting'["caller"] = waiting["caller"]
  BY <1>2, <1>3 DEF OnSides
<1>6. /\ making' = [making EXCEPT !["callee"] = FALSE]
      /\ UNCHANGED <<signaling, pending, settled, chain>>
      /\ Called' = Called /\ Bid' = Bid
  BY DEF SendOffer, Called, Bid
<1>7. DOMAIN relayed' = Side /\ relayed'["callee"] = relayed["callee"]
  BY <1>2 DEF SendOffer, Relay, Peer, OnSides
<1>8. OnSides'
  BY <1>2, <1>3, <1>6, <1>7 DEF OnSides
<1>9. CallerShape' /\ CallerSame /\ MailShape' /\ PostSame
  <2>1. making'["caller"] = making["caller"]
    BY <1>2, <1>6 DEF OnSides
  <2> QED
    BY <1>2, <1>5, <1>6, <1>7, <2>1, CallerRests, PostRests
<1>10. Agreement'
  BY <1>6 DEF NegotiationInv, Agreement, Calling, Bidding
<1>11. Short(old) /\ Short(back) /\ Short(bid)
  BY <1>1, MailIsShort
<1>12. CASE waiting["callee"] = <<"offer">> /\ signaling["callee"] = "have-local-offer"
  <2>1. waiting'["callee"] = <<>>
    BY <1>5, <1>12, OneLong
  <2>2. LocalDescription("callee") = Offer(Bid)
    BY <1>12 DEF LocalDescription, Offer, Bid
  <2>3. relayed' = [relayed EXCEPT !["caller"] = Append(relayed["caller"], Offer(Bid))]
    <3>1. LocalDescription("callee").type = "offer"
      BY <2>2, Apart
    <3> QED
      BY <2>2, <3>1 DEF SendOffer, Relay, Peer
  <2>4. BidUnsent /\ Bidding /\ bid = <<>> /\ ~BidTaken /\ ~BidApplied /\ ~BidGiven /\ ~BidReturned /\ ~BidBack
    BY <1>1, <1>12 DEF BidUnsent, OneBid, Bidding
  <2>5. relayed'["caller"] = Append(old \o back \o bid, Offer(Bid))
    BY <1>1, <1>2, <2>3 DEF MailAt, OnSides
  <2>6. Append(old \o back \o bid, Offer(Bid)) = old \o back \o <<Offer(Bid)>>
    BY <1>11, <2>4, Joined
  <2>7. MailAt(old, back, <<Offer(Bid)>>)'
    BY <1>1, <1>6, <2>5, <2>6 DEF MailAt
  <2>8. /\ Bidding' /\ ~BidUnsent' /\ ~CallGiven' /\ ~CallGiven /\ waiting'["callee"] # <<"offer", "reply">>
        /\ ~CallApplied' /\ ~CallApplied
    BY <1>6, <1>12, <2>1, Lengths DEF Bidding, BidUnsent, CallGiven, CallApplied
  <2>9. CalleeShape' /\ (CallTaken' <=> CallTaken) /\ (BidBack' <=> BidBack)
    BY <1>2, <1>6, <1>12, <2>1 DEF CalleeShape, CallTaken, BidBack
  <2>10. OldMail(old)'
    BY <1>1, <1>9, <2>8, <2>9 DEF OldMail, CallerSame, PostSame
  <2>11. OneCall(back)'
    BY <1>1, <1>6, <1>9, <2>8, <2>9 DEF OneCall, CallerSame, PostSame
  <2>12. OneBid(<<Offer(Bid)>>)'
    BY <1>9, <2>4, <2>8, <2>9 DEF OneBid, CallerSame, PostSame
  <2> QED
    BY <1>8, <1>9, <1>10, <2>7, <2>9, <2>10, <2>11, <2>12 DEF NegotiationInv
<1>13. CASE waiting["callee"] = <<"offer", "reply">> /\ signaling["callee"] = "have-remote-offer"
  <2>1. waiting'["callee"] = <<"reply">> /\ chain["callee"] = <<>>
    BY <1>2, <1>5, <1>13, TwoLong, Lengths DEF CalleeShape
  <2>2. /\ CallApplied /\ Calling /\ Called = Bid /\ ~CallGiven /\ back = <<>> /\ ~CallBack /\ ~BidGiven
        /\ ~BidReturned /\ ~BidBack /\ ~CallUnsent /\ ~CallPosted /\ ~CallTaken
    BY <1>1, <1>13 DEF CallApplied, OneCall
  <2>3. old = <<>>
    BY <1>1, <1>13 DEF OldMail
  <2>4. ~Bidding /\ bid = <<>> /\ ~BidTaken /\ ~BidApplied /\ ~BidUnsent
    <3>1. ~Bidding /\ ~BidUnsent
      BY <1>13 DEF Bidding, BidUnsent
    <3> QED
      BY <1>1, <3>1 DEF OneBid
  <2>5. CalleeShape' /\ ~Bidding' /\ ~BidUnsent' /\ CallApplied'
    BY <1>6, <1>13, <2>1 DEF CalleeShape, Bidding, BidUnsent, CallApplied
  <2>6. ~CallGiven' /\ ~CallTaken' /\ ~BidBack' /\ waiting'["callee"] # <<"offer", "reply">>
    BY <1>6, <2>1, Lengths DEF CallGiven, CallTaken, BidBack
  <2>7. OneCall(<<>>)' /\ OneBid(<<>>)'
    BY <1>6, <1>9, <2>2, <2>4, <2>5, <2>6 DEF OneCall, OneBid, CallerSame, PostSame
  <2>8. CASE LocalDescription("callee").type = "offer"
    <3>1. PICK x : LocalDescription("callee") = Offer(x)
      BY <1>13, <2>8 DEF LocalDescription, Offer
    <3>2. relayed' = [relayed EXCEPT !["caller"] = Append(relayed["caller"], Offer(x))]
      BY <2>8, <3>1 DEF SendOffer, Relay, Peer
    <3>3. relayed'["caller"] = Append(old \o back \o bid, Offer(x))
      BY <1>1, <1>2, <3>2 DEF MailAt, OnSides
    <3>4. Append(old \o back \o bid, Offer(x)) = <<Offer(x)>> \o <<>> \o <<>>
      BY <1>11, <2>2, <2>3, <2>4, Joined
    <3>5. MailAt(<<Offer(x)>>, <<>>, <<>>)'
      BY <3>3, <3>4 DEF MailAt
    <3>6. OldMail(<<Offer(x)>>)'
      BY <1>9, <2>2, <2>6 DEF OldMail, CallerSame, PostSame
    <3> QED
      BY <1>8, <1>9, <1>10, <2>5, <2>7, <3>5, <3>6 DEF NegotiationInv
  <2>9. CASE LocalDescription("callee").type # "offer"
    <3>1. UNCHANGED relayed
      BY <2>9 DEF SendOffer, Relay
    <3>2. MailAt(<<>>, <<>>, <<>>)'
      BY <1>1, <2>2, <2>3, <2>4, <3>1 DEF MailAt
    <3>3. OldMail(<<>>)'
      BY DEF OldMail
    <3> QED
      BY <1>8, <1>9, <1>10, <2>5, <2>7, <3>2, <3>3 DEF NegotiationInv
  <2> QED
    BY <2>8, <2>9
<1> QED
  BY <1>4, <1>12, <1>13

LEMMA CalleeSendsAnswer ==
  ASSUME NegotiationInv, DigestsInOrder, SendAnswer("callee")
  PROVE  NegotiationInv'
<1>1. PICK old, back, bid : MailAt(old, back, bid) /\ OldMail(old) /\ OneCall(back) /\ OneBid(bid)
  BY DEF NegotiationInv
<1>2. CallerShape /\ CalleeShape /\ MailShape /\ OnSides /\ "caller" \in Side /\ "callee" \in Side
  BY DEF NegotiationInv, Side
<1>3. /\ waiting["callee"] # <<>> /\ Head(waiting["callee"]) = "answer"
      /\ waiting' = [waiting EXCEPT !["callee"] = Tail(waiting["callee"])]
  BY <1>2, Waits, FirstDigest DEF SendAnswer
<1>4. \/ waiting["callee"] = <<"answer">> /\ signaling["callee"] = "stable"
      \/ waiting["callee"] = <<"answer", "offer">> /\ signaling["callee"] = "have-local-offer"
  BY <1>2, <1>3, OneLong, TwoLong DEF CalleeShape
<1>5. waiting'["callee"] = Tail(waiting["callee"]) /\ waiting'["caller"] = waiting["caller"]
  BY <1>2, <1>3 DEF OnSides
<1>6. /\ UNCHANGED <<signaling, pending, settled, chain, making>>
      /\ Called' = Called /\ Bid' = Bid
  BY DEF SendAnswer, Called, Bid
<1>7. DOMAIN relayed' = Side /\ relayed'["callee"] = relayed["callee"]
  BY <1>2 DEF SendAnswer, Relay, Peer, OnSides
<1>8. OnSides'
  BY <1>2, <1>3, <1>6, <1>7 DEF OnSides
<1>9. CallerShape' /\ CallerSame /\ MailShape' /\ PostSame
  BY <1>2, <1>5, <1>6, <1>7, CallerRests, PostRests
<1>10. Agreement'
  BY <1>6 DEF NegotiationInv, Agreement, Calling, Bidding
<1>11. /\ CallGiven /\ Calling /\ settled["callee"] = IsAnswered(Called) /\ back = <<>> /\ ~CallBack /\ ~BidGiven
       /\ ~BidReturned /\ ~BidBack /\ ~CallUnsent /\ ~CallPosted /\ ~CallTaken /\ ~CallApplied
  BY <1>1, <1>4 DEF CallGiven, OneCall
<1>12. (CallTaken' <=> CallTaken) /\ (CallApplied' <=> CallApplied) /\ (BidBack' <=> BidBack) /\ (Bidding' <=> Bidding)
  BY <1>6 DEF CallTaken, CallApplied, BidBack, Bidding
<1>13. CASE waiting["callee"] = <<"answer">> /\ signaling["callee"] = "stable"
  <2>1. waiting'["callee"] = <<>>
    BY <1>5, <1>13, OneLong
  <2>2. CalleeShape' /\ ~CallGiven' /\ ~BidUnsent' /\ ~BidUnsent /\ ~Bidding /\ waiting'["callee"] # <<"offer", "reply">>
    BY <1>2, <1>6, <1>13, <2>1, Lengths DEF CalleeShape, CallGiven, BidUnsent, Bidding
  <2>3. bid = <<>> /\ ~BidTaken /\ ~BidApplied
    BY <1>1, <2>2 DEF OneBid
  <2>4. LocalDescription("callee") = Answer(Called)
    BY <1>11, <1>13, Apart DEF LocalDescription, Answer
  <2>5. relayed' = [relayed EXCEPT !["caller"] = Append(relayed["caller"], Answer(Called))]
    <3>1. LocalDescription("callee").type = "answer"
      BY <2>4, Apart
    <3> QED
      BY <2>4, <3>1 DEF SendAnswer, Relay, Peer
  <2>6. relayed'["caller"] = Append(old \o back \o bid, Answer(Called))
    BY <1>1, <1>2, <2>5 DEF MailAt, OnSides
  <2>7. Append(old \o back \o bid, Answer(Called)) = old \o <<Answer(Called)>> \o <<>>
    <3>1. Short(old) /\ Short(back) /\ Short(bid)
      BY <1>1, MailIsShort
    <3> QED
      BY <1>11, <2>3, <3>1, Joined
  <2>8. MailAt(old, <<Answer(Called)>>, <<>>)'
    BY <1>1, <1>6, <2>6, <2>7 DEF MailAt
  <2>9. OldMail(old)'
    BY <1>1, <1>9, <1>12, <2>2 DEF OldMail, CallerSame, PostSame
  <2>10. OneCall(<<Answer(Called)>>)'
    BY <1>6, <1>9, <1>11, <1>12, <2>2 DEF OneCall, CallerSame, PostSame
  <2>11. OneBid(<<>>)'
    BY <1>6, <1>9, <1>11, <1>12, <2>2, <2>3 DEF OneBid, CallerSame, PostSame
  <2> QED
    BY <1>8, <1>9, <1>10, <2>2, <2>8, <2>9, <2>10, <2>11 DEF NegotiationInv
<1>14. CASE waiting["callee"] = <<"answer", "offer">> /\ signaling["callee"] = "have-local-offer"
  <2>1. waiting'["callee"] = <<"offer">>
    BY <1>5, <1>14, TwoLong
  <2>2. CalleeShape' /\ ~CallGiven' /\ BidUnsent' /\ BidUnsent /\ waiting'["callee"] # <<"offer", "reply">>
    BY <1>2, <1>6, <1>14, <2>1, Lengths DEF CalleeShape, CallGiven, BidUnsent, Bidding
  <2>3. LocalDescription("callee").type = "offer"
    BY <1>14 DEF LocalDescription
  <2>4. UNCHANGED relayed
    BY <2>3 DEF SendAnswer, Relay
  <2>5. MailAt(old, back, bid)'
    BY <1>1, <1>6, <2>4 DEF MailAt
  <2>6. OldMail(old)'
    BY <1>1, <1>9, <1>12, <2>2 DEF OldMail, CallerSame, PostSame
  <2>7. OneCall(back)'
    BY <1>1, <1>6, <1>9, <1>11, <1>12, <2>2 DEF OneCall, CallerSame, PostSame
  <2>8. OneBid(bid)'
    BY <1>1, <1>6, <1>9, <1>12, <2>2 DEF OneBid, CallerSame, PostSame
  <2> QED
    BY <1>8, <1>9, <1>10, <2>2, <2>5, <2>6, <2>7, <2>8 DEF NegotiationInv
<1> QED
  BY <1>4, <1>13, <1>14

(* The callee takes what arrives in every state. *)
LEMMA CalleeTakesSignal ==
  ASSUME NegotiationInv, TakeSignal("callee")
  PROVE  NegotiationInv'
<1>1. PICK old, back, bid : MailAt(old, back, bid) /\ OldMail(old) /\ OneCall(back) /\ OneBid(bid)
  BY DEF NegotiationInv
<1>2. CallerShape /\ CalleeShape /\ MailShape /\ OnSides /\ "caller" \in Side /\ "callee" \in Side
  BY DEF NegotiationInv, Side
<1>3. /\ signaling["callee"] # "new" /\ relayed["callee"] # <<>>
      /\ relayed' = [relayed EXCEPT !["callee"] = Tail(relayed["callee"])]
      /\ UNCHANGED <<signaling, pending, settled, making, waiting>>
  BY DEF TakeSignal
<1>4. relayed'["callee"] = Tail(relayed["callee"]) /\ relayed'["caller"] = relayed["caller"]
  BY <1>2, <1>3 DEF OnSides
<1>5. OnSides' /\ chain'["caller"] = chain["caller"]
  BY <1>2, <1>3 DEF OnSides, TakeSignal
<1>6. CallerShape' /\ CallerSame
  BY <1>2, <1>3, <1>5, CallerRests
<1>7. Called' = Called /\ Bid' = Bid /\ Agreement' /\ MailAt(old, back, bid)'
  BY <1>1, <1>3, <1>4 DEF Called, Bid, NegotiationInv, Agreement, Calling, Bidding, MailAt
<1>8. /\ (Bidding' <=> Bidding) /\ (CallApplied' <=> CallApplied) /\ (CallGiven' <=> CallGiven)
      /\ (BidUnsent' <=> BidUnsent)
      /\ (waiting["callee"] = <<"offer", "reply">>)' <=> (waiting["callee"] = <<"offer", "reply">>)
  BY <1>3 DEF Bidding, CallApplied, CallGiven, BidUnsent
<1>9. CASE relayed["callee"] \in {<<Answer(Bid)>>, <<Answer(Bid), Offer(Called)>>}
  <2>1. /\ Head(relayed["callee"]) = Answer(Bid)
        /\ \/ relayed["callee"] = <<Answer(Bid)>> /\ relayed'["callee"] = <<>>
           \/ relayed["callee"] = <<Answer(Bid), Offer(Called)>> /\ relayed'["callee"] = <<Offer(Called)>>
    <3>1. CASE relayed["callee"] = <<Answer(Bid)>>
      <4>1. Head(<<Answer(Bid)>>) = Answer(Bid) /\ Tail(<<Answer(Bid)>>) = <<>>
        BY OneLong
      <4> QED
        BY <1>4, <3>1, <4>1
    <3>2. CASE relayed["callee"] = <<Answer(Bid), Offer(Called)>>
      <4>1. /\ Head(<<Answer(Bid), Offer(Called)>>) = Answer(Bid)
            /\ Tail(<<Answer(Bid), Offer(Called)>>) = <<Offer(Called)>>
        BY TwoLong
      <4> QED
        BY <1>4, <3>2, <4>1
    <3> QED
      BY <1>9, <3>1, <3>2
  <2>2. BidReturned /\ Bidding /\ settled["caller"] = IsAnswered(Bid) /\ ~BidBack /\ ~BidUnsent /\ bid = <<>>
        /\ ~BidTaken /\ ~BidApplied /\ ~BidGiven
    BY <1>1, <1>9 DEF BidReturned, OneBid
  <2>3. ~CallTaken /\ ~CallApplied /\ ~CallGiven /\ back = <<>> /\ ~CallBack
    BY <1>1, <2>2 DEF OneCall
  <2>4. signaling["callee"] = "have-local-offer" /\ chain["callee"] = <<>>
    BY <1>2, <2>2, <2>3 DEF CalleeShape, Bidding, CallTaken, BidBack
  <2>5. chain' = [chain EXCEPT !["callee"] = <<Remote(Answer(Bid))>>]
    <3>1. Append(chain["callee"], Remote(Answer(Bid))) = <<Remote(Answer(Bid))>>
      BY <2>4, OneLong
    <3>2. Answer(Bid).type = "answer" /\ signaling["callee"] # "stable"
      BY <2>4, Apart
    <3>3. chain' = [chain EXCEPT !["callee"] = Append(chain["callee"], Remote(Answer(Bid)))]
      BY <2>1, <3>2 DEF TakeSignal, Remote
    <3> QED
      BY <3>1, <3>3
  <2>6. chain'["callee"] = <<Remote(Answer(Bid))>>
    BY <1>2, <2>5 DEF OnSides
  <2>7. CalleeShape' /\ BidBack'
    BY <1>2, <1>3, <1>7, <2>4, <2>6, Lengths DEF CalleeShape, BidBack
  <2>8. ~CallTaken'
    BY <2>6, Lengths, Differ DEF CallTaken
  <2>9. MailShape' /\ ~BidReturned' /\ (CallPosted' <=> CallPosted)
    <3>1. CASE relayed["callee"] = <<Answer(Bid)>> /\ relayed'["callee"] = <<>>
      BY <3>1, Lengths, Differ DEF MailShape, BidReturned, CallPosted
    <3>2. CASE relayed["callee"] = <<Answer(Bid), Offer(Called)>> /\ relayed'["callee"] = <<Offer(Called)>>
      BY <1>7, <3>2, Lengths, Differ DEF MailShape, BidReturned, CallPosted
    <3> QED
      BY <2>1, <3>1, <3>2
  <2>10. OldMail(old)' /\ OneCall(back)'
    BY <1>1, <1>6, <1>8, <2>3, <2>8, <2>9 DEF OldMail, OneCall, CallerSame
  <2>11. OneBid(bid)'
    BY <1>3, <1>6, <1>7, <1>8, <2>2, <2>7, <2>9 DEF OneBid, CallerSame
  <2> QED
    BY <1>5, <1>6, <1>7, <2>7, <2>9, <2>10, <2>11 DEF NegotiationInv
<1>10. CASE relayed["callee"] = <<Offer(Called)>>
  <2>1. Head(relayed["callee"]) = Offer(Called) /\ relayed'["callee"] = <<>>
    BY <1>4, <1>10, OneLong
  <2>2. /\ CallPosted /\ Calling /\ ~CallTaken /\ ~CallApplied /\ ~CallGiven /\ back = <<>> /\ ~CallBack /\ ~BidGiven
        /\ ~CallUnsent /\ old = <<>>
    BY <1>1, <1>10 DEF CallPosted, OneCall, OldMail
  <2>3. ~BidReturned
    BY <1>10, Lengths, Differ DEF BidReturned
  <2>4. chain' = [chain EXCEPT !["callee"] = Append(chain["callee"], Remote(Offer(Called)))]
    <3>1. Offer(Called).type = "offer" /\ ~IgnoresOffer("callee")
      BY Apart DEF IgnoresOffer, Polite
    <3> QED
      BY <2>1, <3>1 DEF TakeSignal, Remote
  <2>5. chain'["callee"] = Append(chain["callee"], Remote(Offer(Called)))
    BY <1>2, <2>4 DEF OnSides
  <2>6. \/ signaling["callee"] = "stable" /\ chain["callee"] \in {<<>>, <<Local("offer")>>}
        \/ signaling["callee"] = "have-local-offer" /\ chain["callee"] \in {<<>>, <<Remote(Answer(Bid))>>}
    BY <1>2, <1>3, <2>2 DEF CalleeShape, CallApplied, CallTaken
  <2>7. /\ chain["callee"] = <<>> => chain'["callee"] = <<Remote(Offer(Called))>>
        /\ \A a : chain["callee"] = <<a>> => chain'["callee"] = <<a, Remote(Offer(Called))>>
    BY <2>5, OneLong, TwoLong
  <2>8. CallTaken'
    BY <1>7, <2>6, <2>7 DEF CallTaken
  <2>9. CalleeShape'
    <3>1. CASE signaling["callee"] = "stable"
      <4>1. waiting["callee"] \in {<<>>, <<"answer">>}
        BY <1>2, <3>1 DEF CalleeShape
      <4>2. chain'["callee"] \in {<<Remote(Offer(Called))>>, <<Local("offer"), Remote(Offer(Called))>>}
        BY <2>6, <2>7, <3>1
      <4> QED
        BY <1>3, <1>7, <3>1, <4>1, <4>2 DEF CalleeShape
    <3>2. CASE signaling["callee"] = "have-local-offer"
      <4>1. waiting["callee"] \in {<<>>, <<"offer">>, <<"answer", "offer">>}
        BY <1>2, <3>2 DEF CalleeShape
      <4>2. chain'["callee"] \in {<<Remote(Offer(Called))>>, <<Remote(Answer(Bid)), Remote(Offer(Called))>>}
        BY <2>6, <2>7, <3>2
      <4> QED
        BY <1>3, <1>7, <3>2, <4>1, <4>2 DEF CalleeShape
    <3> QED
      BY <2>6, <3>1, <3>2
  <2>10. BidBack' <=> BidBack
    <3>1. CASE chain["callee"] = <<>>
      BY <2>7, <3>1, Lengths, Differ DEF BidBack
    <3>2. CASE chain["callee"] = <<Local("offer")>>
      <4>1. chain'["callee"] = <<Local("offer"), Remote(Offer(Called))>>
        BY <2>7, <3>2
      <4> QED
        BY <3>2, <4>1, Lengths, Differ DEF BidBack
    <3>3. CASE chain["callee"] = <<Remote(Answer(Bid))>>
      <4>1. chain'["callee"] = <<Remote(Answer(Bid)), Remote(Offer(Called))>>
        BY <2>7, <3>3
      <4> QED
        BY <1>7, <3>3, <4>1 DEF BidBack
    <3> QED
      BY <2>6, <3>1, <3>2, <3>3
  <2>11. MailShape' /\ ~CallPosted' /\ ~BidReturned'
    BY <2>1, Lengths DEF MailShape, CallPosted, BidReturned
  <2>12. OldMail(old)' /\ OneCall(back)'
    BY <1>6, <1>8, <2>2, <2>8, <2>11 DEF OldMail, OneCall, CallerSame
  <2>13. OneBid(bid)'
    BY <1>1, <1>3, <1>6, <1>7, <1>8, <2>3, <2>10, <2>11 DEF OneBid, CallerSame
  <2> QED
    BY <1>5, <1>6, <1>7, <2>9, <2>11, <2>12, <2>13 DEF NegotiationInv
<1> QED
  BY <1>2, <1>3, <1>9, <1>10 DEF MailShape

-----------------------------------------------------------------------------
(* Each pending offer is in one place, whatever is lost. *)
THEOREM NegotiationInvariant ==
  ASSUME DigestsInOrder
  PROVE  NegotiationSpec => []NegotiationInv
<1>1. NegotiationInit => NegotiationInv
  <2> SUFFICES ASSUME NegotiationInit PROVE NegotiationInv
    OBVIOUS
  <2>1. OnSides /\ CallerShape /\ CalleeShape /\ MailShape /\ Agreement
    BY DEF NegotiationInit, OnSides, CallerShape, CalleeShape, MailShape, Agreement, Nothing, Side
  <2>2. MailAt(<<>>, <<>>, <<>>)
    BY Joins DEF MailAt, NegotiationInit, Side
  <2>3. /\ ~CallUnsent /\ ~CallPosted /\ ~CallTaken /\ ~CallApplied /\ ~CallGiven /\ ~CallBack
        /\ ~BidUnsent /\ ~BidTaken /\ ~BidApplied /\ ~BidGiven /\ ~BidReturned /\ ~BidBack
    BY Lengths DEF NegotiationInit, Side, CallUnsent, CallPosted, CallTaken, CallApplied, CallGiven, CallBack,
       BidUnsent, BidTaken, BidApplied, BidGiven, BidReturned, BidBack
  <2>4. OldMail(<<>>) /\ OneCall(<<>>) /\ OneBid(<<>>)
    BY <2>3 DEF OldMail, OneCall, OneBid
  <2> QED
    BY <2>1, <2>2, <2>4 DEF NegotiationInv
<1>2. NegotiationInv /\ [NegotiationNext]_negotiationVars => NegotiationInv'
  <2> SUFFICES ASSUME NegotiationInv, [NegotiationNext]_negotiationVars PROVE NegotiationInv'
    OBVIOUS
  <2>1. ASSUME UNCHANGED <<signaling, pending, settled, chain, making, waiting, relayed>>
        PROVE  NegotiationInv'
    <3>1. OnSides' /\ CallerShape' /\ CalleeShape' /\ CallerSame /\ CalleeSame
      BY <2>1, CallerRests, CalleeRests DEF NegotiationInv, OnSides
    <3> QED
      BY <2>1, <3>1, Unseen
  <2>2. ASSUME NEW p \in Side, StartPeer(p) PROVE NegotiationInv'
    BY <2>2, StartKeeps
  <2>3. ASSUME NEW p \in Side, RestartIce(p) \/ AddVideoTrack(p) PROVE NegotiationInv'
    BY <2>1, <2>3 DEF RestartIce, AddVideoTrack, Demand
  <2>4. ASSUME NEW p \in Side, NegotiationNeeded(p) PROVE NegotiationInv'
    BY <2>4, NeedKeeps
  <2>5. ASSUME NEW p \in Side, Operate(p) PROVE NegotiationInv'
    BY <2>5, CallerOperates, CalleeOperates DEF Side
  <2>6. ASSUME NEW p \in Side, SendOffer(p) PROVE NegotiationInv'
    BY <2>6, CallerSendsOffer, CalleeSendsOffer DEF Side
  <2>7. ASSUME NEW p \in Side, Reply(p) PROVE NegotiationInv'
    BY <2>7, ReplyKeeps
  <2>8. ASSUME NEW p \in Side, SendAnswer(p) PROVE NegotiationInv'
    BY <2>8, CallerSendsAnswer, CalleeSendsAnswer DEF Side
  <2>9. ASSUME NEW p \in Side, TakeSignal(p) PROVE NegotiationInv'
    BY <2>9, CallerTakesSignal, CalleeTakesSignal DEF Side
  <2>10. ASSUME NEW p \in Side, LoseSignals(p) PROVE NegotiationInv'
    BY <2>10, LossKeeps
  <2>11. CASE UNCHANGED negotiationVars
    BY <2>1, <2>11 DEF negotiationVars
  <2> QED
    BY <2>2, <2>3, <2>4, <2>5, <2>6, <2>7, <2>8, <2>9, <2>10, <2>11 DEF NegotiationNext
<1> QED
  BY <1>1, <1>2, PTL DEF NegotiationSpec

(* However the offers of the two sides cross, are rolled back or are lost:   *)
(* sides that are both stable have settled on the same offer, made by one of *)
(* them and answered by the other.                                           *)
THEOREM SidesAgree ==
  ASSUME DigestsInOrder
  PROVE  NegotiationSpec => []SameExchange
<1>1. NegotiationInv => SameExchange
  BY DEF NegotiationInv, Agreement, SameExchange, BothStable, Calling, Bidding, Side
<1> QED
  BY <1>1, NegotiationInvariant, PTL

-----------------------------------------------------------------------------
(* Types, whatever the order in which digests end.                            *)

(* Only offers that were created are sent, applied and remembered: what a     *)
(* message, an operation or the last exchange names is at most "offers".      *)
Sent == [type : {"offer", "answer"}, offer : 0..offers]
Planned == [op : {"local"}, next : {"offer", "answer"}] \cup [op : {"remote"}, signal : Sent]
Described == [type : {"none", "offer", "answer"}, offer : 0..offers, answered : 0..offers]

NegotiationTypes ==
    /\ signaling \in [Side -> {"new", "stable", "have-local-offer", "have-remote-offer"}]
    /\ pending \in [Side -> 0..offers]
    /\ settled \in [Side -> Described]
    /\ need \in [Side -> SUBSET Want] /\ offered \in [Side -> SUBSET Want]
    /\ chain \in [Side -> Seq(Planned)]
    /\ making \in [Side -> BOOLEAN]
    /\ waiting \in [Side -> Seq({"reply", "offer", "answer"})]
    /\ relayed \in [Side -> Seq(Sent)]
    /\ offers \in Nat /\ demands \in 0..MaxDemands /\ losses \in 0..MaxLosses

LEMMA SeqOfMore == \A S, T : S \subseteq T => Seq(S) \subseteq Seq(T)
OBVIOUS

LEMMA TypesAreTyped == NegotiationTypes => NegotiationTypeOK
<1> SUFFICES ASSUME NegotiationTypes PROVE NegotiationTypeOK
  OBVIOUS
<1>1. 0..offers \subseteq Nat
  BY DEF NegotiationTypes
<1>2. Sent \subseteq Signal
  BY <1>1 DEF Sent, Signal
<1>3. Planned \subseteq Operation
  BY <1>2 DEF Planned, Operation
<1>4. Seq(Sent) \subseteq Seq(Signal) /\ Seq(Planned) \subseteq Seq(Operation)
  BY <1>2, <1>3, SeqOfMore
<1>5. relayed \in [Side -> Seq(Signal)] /\ chain \in [Side -> Seq(Operation)]
  BY <1>4 DEF NegotiationTypes
<1>6. \A p \in Side : settled[p].type \in {"none", "offer", "answer"}
  BY DEF NegotiationTypes, Described
<1> QED
  BY <1>5, <1>6 DEF NegotiationTypes, NegotiationTypeOK

LEMMA TypesInitial == NegotiationInit => NegotiationTypes
BY NegotiationAssumption DEF NegotiationInit, NegotiationTypes, Described, Nothing, Want

(* One more offer leaves what was typed typed.                                *)
LEMMA MoreOffers ==
    ASSUME NegotiationTypes, offers' \in {offers, offers + 1}
    PROVE  /\ offers' \in Nat /\ 0..offers \subseteq 0..offers'
           /\ Sent \subseteq Sent' /\ Described \subseteq Described'
           /\ Seq(Planned) \subseteq Seq(Planned') /\ Seq(Sent) \subseteq Seq(Sent')
<1>1. offers' \in Nat /\ 0..offers \subseteq 0..offers'
  BY DEF NegotiationTypes
<1>2. Sent \subseteq Sent' /\ Described \subseteq Described'
  BY <1>1 DEF Sent, Described
<1>3. Planned \subseteq Planned'
  BY <1>2 DEF Planned
<1> QED
  BY <1>1, <1>2, <1>3, SeqOfMore

(* A digest that ends leaves the others in their order.                       *)
LEMMA DigestTypes ==
    ASSUME NegotiationTypes, NEW p \in Side, NEW what, DigestEnds(p, what)
    PROVE  waiting' \in [Side -> Seq({"reply", "offer", "answer"})]
<1> DEFINE W == {"reply", "offer", "answer"}
<1>1. waiting \in [Side -> Seq(W)] /\ waiting[p] \in Seq(W)
  BY DEF NegotiationTypes
<1>2. PICK i \in DOMAIN waiting[p] :
        waiting' = [waiting EXCEPT ![p] = SubSeq(@, 1, i - 1) \o SubSeq(@, i + 1, Len(@))]
  BY DEF DigestEnds
<1>3. i \in 1..Len(waiting[p]) /\ Len(waiting[p]) \in Nat
  BY <1>1
<1>4. SubSeq(waiting[p], 1, i - 1) \in Seq(W) /\ SubSeq(waiting[p], i + 1, Len(waiting[p])) \in Seq(W)
  <2>1. /\ \A k \in 1..(i - 1) : waiting[p][k] \in W
        /\ \A k \in (i + 1)..Len(waiting[p]) : waiting[p][k] \in W
    BY <1>1, <1>3
  <2> HIDE DEF W
  <2> QED
    BY <1>1, <1>3, SubSeqProperties
<1> HIDE DEF W
<1>5. waiting' \in [Side -> Seq(W)]
  <2>1. SubSeq(waiting[p], 1, i - 1) \o SubSeq(waiting[p], i + 1, Len(waiting[p])) \in Seq(W)
    BY <1>4, ConcatProperties
  <2> QED
    BY <1>1, <1>2, <2>1
<1> QED
  BY <1>5 DEF W

(* What a side can send names an offer that was created.                      *)
LEMMA RelayTypes ==
    ASSUME NegotiationTypes, NEW p \in Side, NEW type \in {"offer", "answer"}, Relay(p, type)
    PROVE  relayed' \in [Side -> Seq(Sent)]
<1>1. LocalDescription(p).type = type => LocalDescription(p) \in Sent
  BY DEF LocalDescription, NegotiationTypes, Sent, Described
<1>2. relayed \in [Side -> Seq(Sent)] /\ Peer(p) \in Side
  BY DEF NegotiationTypes, Peer, Side
<1>3. CASE LocalDescription(p).type = type
  <2>1. relayed' = [relayed EXCEPT ![Peer(p)] = Append(@, LocalDescription(p))]
    BY <1>3 DEF Relay
  <2>2. Append(relayed[Peer(p)], LocalDescription(p)) \in Seq(Sent)
    BY <1>1, <1>2, <1>3, AppendProperties
  <2> QED
    BY <1>2, <2>1, <2>2
<1> QED
  BY <1>2, <1>3 DEF Relay

LEMMA PlanTypes ==
    ASSUME NegotiationTypes, NEW p \in Side, NEW o \in Planned
    PROVE  [chain EXCEPT ![p] = Append(@, o)] \in [Side -> Seq(Planned)]
<1>1. chain \in [Side -> Seq(Planned)] /\ Append(chain[p], o) \in Seq(Planned)
  BY AppendProperties DEF NegotiationTypes
<1> QED
  BY <1>1

(* The connection's own operations.                                           *)
LEMMA OperateTypes == ASSUME NegotiationTypes, NEW p \in Side, Operate(p) PROVE NegotiationTypes'
<1> DEFINE o == Head(chain[p])
<1>1. o \in Planned /\ Tail(chain[p]) \in Seq(Planned) /\ chain \in [Side -> Seq(Planned)]
  BY DEF Operate, NegotiationTypes
<1>2. chain' = [chain EXCEPT ![p] = Tail(@)] /\ UNCHANGED <<making, relayed, demands, losses>>
  BY DEF Operate
<1>3. chain' \in [Side -> Seq(Planned)]
  BY <1>1, <1>2
<1>4. ASSUME offers' \in {offers, offers + 1},
             /\ signaling' \in [Side -> {"new", "stable", "have-local-offer", "have-remote-offer"}]
             /\ pending' \in [Side -> 0..offers']
             /\ settled' \in [Side -> Described']
             /\ need' \in [Side -> SUBSET Want] /\ offered' \in [Side -> SUBSET Want]
             /\ waiting' \in [Side -> Seq({"reply", "offer", "answer"})]
      PROVE  NegotiationTypes'
  <2>1. chain' \in [Side -> Seq(Planned')] /\ relayed' \in [Side -> Seq(Sent')]
    BY <1>2, <1>3, <1>4, MoreOffers DEF NegotiationTypes
  <2> QED
    BY <1>2, <1>4, <2>1, MoreOffers DEF NegotiationTypes
<1>5. ASSUME NEW what \in {"reply", "offer", "answer"}, Await(p, what)
      PROVE  waiting' \in [Side -> Seq({"reply", "offer", "answer"})]
  BY <1>5 DEF Await, NegotiationTypes
<1>6. ASSUME o.op = "local", SetLocal(p, o.next) PROVE NegotiationTypes'
  <2>1. o.next \in {"offer", "answer"}
    BY <1>1, <1>6 DEF Planned
  <2>2. waiting' \in [Side -> Seq({"reply", "offer", "answer"})]
    BY <1>5, <1>6, <2>1 DEF SetLocal
  <2>3. CASE signaling[p] = "have-remote-offer"
    <3>1. /\ signaling' = [signaling EXCEPT ![p] = "stable"]
          /\ settled' = [settled EXCEPT ![p] =
                  [type |-> "answer", offer |-> pending[p], answered |-> pending[p]]]
          /\ \E still \in SUBSET (need[p] \cap {"track"}) : need' = [need EXCEPT ![p] = still]
          /\ UNCHANGED <<pending, offered, offers>>
      BY <1>6, <2>3 DEF SetLocal
    <3>2. [type |-> "answer", offer |-> pending[p], answered |-> pending[p]] \in Described
      BY DEF Described, NegotiationTypes
    <3>3. settled' \in [Side -> Described'] /\ Described' = Described
      BY <3>1, <3>2 DEF NegotiationTypes, Described
    <3>4. need' \in [Side -> SUBSET Want]
      BY <3>1 DEF NegotiationTypes
    <3> QED
      BY <1>4, <2>2, <3>1, <3>3, <3>4 DEF NegotiationTypes
  <2>4. CASE signaling[p] # "have-remote-offer"
    <3>1. /\ signaling' = [signaling EXCEPT ![p] = "have-local-offer"]
          /\ offers' = offers + 1
          /\ pending' = [pending EXCEPT ![p] = offers + 1]
          /\ offered' = [offered EXCEPT ![p] = @ \cup need[p]]
          /\ need' = [need EXCEPT ![p] = {}]
          /\ settled' = settled
      BY <1>6, <2>4 DEF SetLocal
    <3>2. /\ offers + 1 \in 0..offers' /\ 0..offers \subseteq 0..offers'
          /\ Described \subseteq Described'
      BY <3>1, MoreOffers DEF NegotiationTypes
    <3>3. pending' \in [Side -> 0..offers'] /\ settled' \in [Side -> Described']
      BY <3>1, <3>2 DEF NegotiationTypes
    <3>4. offered' \in [Side -> SUBSET Want] /\ need' \in [Side -> SUBSET Want]
      BY <3>1 DEF NegotiationTypes
    <3> QED
      BY <1>4, <2>2, <3>1, <3>3, <3>4 DEF NegotiationTypes
  <2> QED
    BY <2>3, <2>4
<1>7. ASSUME o.op = "remote", SetRemoteOffer(p, o.signal.offer) PROVE NegotiationTypes'
  <2>1. o.signal.offer \in 0..offers
    BY <1>1, <1>7 DEF Planned, Sent
  <2>2. waiting' \in [Side -> Seq({"reply", "offer", "answer"})]
    BY <1>5, <1>7 DEF SetRemoteOffer
  <2>3. pending' \in [Side -> 0..offers'] /\ settled' \in [Side -> Described'] /\ offers' = offers
    BY <1>7, <2>1 DEF SetRemoteOffer, NegotiationTypes, Described
  <2>4. /\ signaling' \in [Side -> {"new", "stable", "have-local-offer", "have-remote-offer"}]
        /\ need' \in [Side -> SUBSET Want] /\ offered' \in [Side -> SUBSET Want]
    BY <1>7 DEF SetRemoteOffer, NegotiationTypes
  <2> QED
    BY <1>4, <2>2, <2>3, <2>4
<1>8. ASSUME o.op = "remote", SetRemoteAnswer(p, o.signal.offer) PROVE NegotiationTypes'
  <2>1. o.signal.offer \in 0..offers
    BY <1>1, <1>8 DEF Planned, Sent
  <2>2. /\ UNCHANGED <<pending, need, waiting, offers>> /\ Described' = Described
    BY <1>8 DEF SetRemoteAnswer, Described
  <2>3. settled' \in [Side -> Described]
    <3>1. [type |-> "offer", offer |-> pending[p], answered |-> o.signal.offer] \in Described
      BY <2>1 DEF Described, NegotiationTypes
    <3> HIDE DEF o
    <3> QED
      BY <1>8, <3>1 DEF SetRemoteAnswer, NegotiationTypes
  <2>4. /\ signaling' \in [Side -> {"new", "stable", "have-local-offer", "have-remote-offer"}]
        /\ offered' \in [Side -> SUBSET Want]
    BY <1>8 DEF SetRemoteAnswer, NegotiationTypes
  <2> QED
    BY <1>4, <2>2, <2>3, <2>4 DEF NegotiationTypes
<1> QED
  BY <1>6, <1>7, <1>8 DEF Operate

LEMMA TypesStep == NegotiationTypes /\ [NegotiationNext]_negotiationVars => NegotiationTypes'
<1> SUFFICES ASSUME NegotiationTypes, [NegotiationNext]_negotiationVars PROVE NegotiationTypes'
  OBVIOUS
<1>1. ASSUME offers' = offers PROVE Sent' = Sent /\ Planned' = Planned /\ Described' = Described
  BY <1>1 DEF Sent, Planned, Described
<1>2. ASSUME NEW p \in Side, \/ StartPeer(p) \/ RestartIce(p) \/ AddVideoTrack(p)
      PROVE NegotiationTypes'
  <2>1. UNCHANGED <<pending, settled, offered, chain, making, waiting, relayed, offers, losses>>
    BY <1>2 DEF StartPeer, RestartIce, AddVideoTrack, Demand
  <2>2. signaling' \in [Side -> {"new", "stable", "have-local-offer", "have-remote-offer"}]
    BY <1>2 DEF StartPeer, RestartIce, AddVideoTrack, Demand, NegotiationTypes
  <2>3. demands' \in 0..MaxDemands
    <3>1. demands' = demands \/ (demands < MaxDemands /\ demands' = demands + 1)
      BY <1>2 DEF StartPeer, RestartIce, AddVideoTrack, Demand
    <3> QED
      BY <3>1, NegotiationAssumption DEF NegotiationTypes
  <2>4. PICK what \in Want : need' \in {[need EXCEPT ![p] = {what}], [need EXCEPT ![p] = @ \cup {what}]}
    BY <1>2 DEF StartPeer, RestartIce, AddVideoTrack, Demand, Want
  <2>5. need' \in [Side -> SUBSET Want]
    <3>1. need \in [Side -> SUBSET Want] /\ {what} \in SUBSET Want /\ need[p] \cup {what} \in SUBSET Want
      BY DEF NegotiationTypes
    <3> QED
      BY <2>4, <3>1
  <2> QED
    BY <1>1, <2>1, <2>2, <2>3, <2>5 DEF NegotiationTypes
<1>3. ASSUME NEW p \in Side, NegotiationNeeded(p) PROVE NegotiationTypes'
  <2>1. [op |-> "local", next |-> "offer"] \in Planned
    BY DEF Planned
  <2>2. <<[op |-> "local", next |-> "offer"]>> \in Seq(Planned)
    BY <2>1
  <2>3. /\ chain' = [chain EXCEPT ![p] = <<[op |-> "local", next |-> "offer"]>>]
        /\ making' = [making EXCEPT ![p] = TRUE]
        /\ UNCHANGED <<signaling, pending, settled, need, offered, waiting, relayed, offers, demands, losses>>
    BY <1>3 DEF NegotiationNeeded
  <2>4. chain' \in [Side -> Seq(Planned)]
    BY <2>2, <2>3 DEF NegotiationTypes
  <2> QED
    BY <1>1, <2>3, <2>4 DEF NegotiationTypes
<1>4. ASSUME NEW p \in Side, SendOffer(p) \/ SendAnswer(p) PROVE NegotiationTypes'
  <2>1. /\ UNCHANGED <<signaling, pending, settled, need, offered, chain, offers, demands, losses>>
        /\ making' \in [Side -> BOOLEAN]
    BY <1>4 DEF SendOffer, SendAnswer, NegotiationTypes
  <2>2. waiting' \in [Side -> Seq({"reply", "offer", "answer"})] /\ relayed' \in [Side -> Seq(Sent)]
    BY <1>4, DigestTypes, RelayTypes DEF SendOffer, SendAnswer
  <2> QED
    BY <1>1, <2>1, <2>2 DEF NegotiationTypes
<1>5. ASSUME NEW p \in Side, Reply(p) PROVE NegotiationTypes'
  <2>1. [op |-> "local", next |-> "answer"] \in Planned
    BY DEF Planned
  <2>2. /\ waiting' \in [Side -> Seq({"reply", "offer", "answer"})] /\ chain' \in [Side -> Seq(Planned)]
        /\ UNCHANGED <<signaling, pending, settled, need, offered, making, relayed, offers, demands, losses>>
    BY <1>5, <2>1, DigestTypes, PlanTypes DEF Reply
  <2> QED
    BY <1>1, <2>2 DEF NegotiationTypes
<1>6. ASSUME NEW p \in Side, TakeSignal(p) PROVE NegotiationTypes'
  <2> DEFINE s == Head(relayed[p])
  <2>1. s \in Sent /\ Tail(relayed[p]) \in Seq(Sent)
    BY <1>6 DEF TakeSignal, NegotiationTypes
  <2>2. [op |-> "remote", signal |-> s] \in Planned
    BY <2>1 DEF Planned
  <2>3. /\ relayed' = [relayed EXCEPT ![p] = Tail(@)]
        /\ chain' = chain \/ chain' = [chain EXCEPT ![p] = Append(@, [op |-> "remote", signal |-> s])]
        /\ UNCHANGED <<signaling, pending, settled, need, offered, making, waiting, offers, demands, losses>>
    BY <1>6 DEF TakeSignal
  <2>4. chain' \in [Side -> Seq(Planned)]
    <3>1. chain \in [Side -> Seq(Planned)]
      BY DEF NegotiationTypes
    <3>2. [chain EXCEPT ![p] = Append(@, [op |-> "remote", signal |-> s])] \in [Side -> Seq(Planned)]
      BY <2>2, PlanTypes
    <3> HIDE DEF s
    <3> QED
      BY <2>3, <3>1, <3>2
  <2>5. relayed' \in [Side -> Seq(Sent)]
    BY <2>1, <2>3 DEF NegotiationTypes
  <2> QED
    BY <1>1, <2>3, <2>4, <2>5 DEF NegotiationTypes
<1>7. ASSUME NEW p \in Side, LoseSignals(p) PROVE NegotiationTypes'
  <2>1. /\ losses' \in 0..MaxLosses /\ relayed' \in [Side -> Seq(Sent)]
        /\ UNCHANGED <<signaling, pending, settled, need, offered, chain, making, waiting, offers, demands>>
    BY <1>7, NegotiationAssumption DEF LoseSignals, NegotiationTypes
  <2> QED
    BY <1>1, <2>1 DEF NegotiationTypes
<1>8. CASE UNCHANGED negotiationVars
  BY <1>1, <1>8 DEF negotiationVars, NegotiationTypes
<1> QED
  BY <1>2, <1>3, <1>4, <1>5, <1>6, <1>7, <1>8, OperateTypes DEF NegotiationNext

(* Only offers that were created are relayed, applied and remembered, also    *)
(* when digests end out of order: this needs no DigestsInOrder.               *)
THEOREM NegotiationTypeCorrect == NegotiationSpec => []NegotiationTypeOK
BY TypesInitial, TypesStep, TypesAreTyped, PTL DEF NegotiationSpec
=============================================================================
