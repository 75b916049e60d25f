----------------------- MODULE ConnectorRuntimeProofs -----------------------
(***************************************************************************)
(* What ConnectorRuntime promises of the real Connector and its page,      *)
(* proved for any number of captures, Papers, losses and restarts.  Every  *)
(* step of the Connector leaves the coordinator to its own methods, so     *)
(* what CaptureCoordinatorProofs shows holds here; the invariants below    *)
(* add how calls, receipts, the task and its page belong together.         *)
(***************************************************************************)
EXTENDS ConnectorRuntime, CaptureCoordinatorProofs

Writing == {"permitted", "saving", "told", "attaching"}
Coming == {"off", "translating", "asking", "checking", "dispatching", "permitted"}
Owed(kind, r) == \E i \in DOMAIN receipts : receipts[i].kind = kind /\ receipts[i].request = r
OnItsWay(op, r) == \E call \in calls : call.op = op /\ call.request = r
Granted(r) == \E grant \in grants : grant.invocation = Presented(r)
Escaped(r) == \E invocation \in escaped : invocation.request = r
AnsweredYes(op, r) == \E call \in calls : call.op = op /\ call.request = r /\ call.answer = "yes"

-----------------------------------------------------------------------------
TypeInv ==
    /\ active \in Request \cup {None}
    /\ task \in [Request -> CaptureTask \cup {None}]
    /\ receipts \in Seq(Receipt)
    /\ calls \subseteq Call
    /\ page \in [Request -> Page]
    /\ native \in [Request -> {"none", "sent", "saved", "refused"}]
    /\ losses \in Nat
    /\ active # None => task[active] # None

\* The Connector waits for one claim, and for one permission of a task.
Rivals(c, d) == /\ c.waited /\ d.waited /\ c.op = d.op
                /\ c.op = "claim" \/ (c.op = "dispatch" /\ c.request = d.request)

\* The Connector waits for every call it has an answer to, and a task stays as
\* long as something is on its way that is about it.
CallInv ==
    \A call \in calls :
        /\ call.answer # "none" => call.waited
        /\ IF call.op = "claim" /\ call.answer # "yes" THEN call.request = None ELSE call.request \in Request
        /\ call.op \in {"access", "dispatch"} /\ call.waited => task[call.request] # None
        /\ call.op = "result" => task[call.request] # None /\ task[call.request].outcome # None
        /\ \A other \in calls : Rivals(call, other) => call = other

\* What a task has to show for what it says.
Sane(t) ==
    /\ t.outcome = None => t.delivery \in {"none", "over"} /\ t.failure = None
    /\ t.outcome = "CONFIRMED" => t.parent
    /\ t.cleanups # <<>> \/ t.settling = "late" => t.outcome # None
Closed(t) == t.ended \/ t.failure = "native_save"

TaskInv ==
    \A r \in Request : task[r] # None =>
        /\ Sane(task[r])
        /\ task[r].parent => native[r] = "saved"
        /\ ~task[r].triggered => page[r] \in {"off", "over"}
        /\ ~task[r].triggered /\ page[r] = "over" => task[r].outcome # None
        /\ ~task[r].triggered => native[r] = "none"
        /\ Closed(task[r]) => task[r].triggered /\ page[r] = "over"

\* How far a page has come says what Zotero may have of it.
PageInv ==
    \A r \in Request :
        /\ page[r] \in Coming => native[r] = "none"
        /\ page[r] \in {"told", "attaching"} => native[r] = "saved"
        /\ page[r] = "done" => native[r] # "sent"
        /\ page[r] \in Writing => task[r] # None /\ task[r].accepted
        /\ Waiting("dispatch", r) => page[r] \in {"dispatching", "over"}

\* A capture nobody has claimed has left no trace, and is claimed once.
Untouched(r) ==
    /\ task[r] = None /\ page[r] = "off" /\ native[r] = "none"
    /\ \A op \in {"access", "dispatch", "result"} \cup Receipts : ~OnItsWay(op, r)
    /\ \A kind \in Receipts : ~Owed(kind, r)
    /\ r \notin ToSet(idleReceipts)
Unclaimed(r) ==
    r \notin used \/ (attempt # None /\ attempt.request = r /\ attempt.stage = "WAITING_FOR_CONNECTOR")

ClaimInv ==
    \A r \in Request :
        /\ Unclaimed(r) \/ AnsweredYes("claim", r) => Untouched(r)
        /\ ~(Unclaimed(r) /\ AnsweredYes("claim", r))

\* Nothing is written without a permission, nor confirmed without the item.
TruthInv ==
    \A r \in Request :
        /\ page[r] = "permitted" \/ native[r] # "none" \/ AnsweredYes("dispatch", r) => Escaped(r)
        /\ verdict[r] = "CONFIRMED" => native[r] = "saved"

\* A claim leaves room for the two proofs of its task.
FitInv ==
    /\ Len(receipts) <= MaxReceipts
    /\ \A call \in calls : call.op = "claim" /\ call.waited =>
          active = None /\ Len(receipts) + 2 <= MaxReceipts
    /\ active # None => Len(receipts) + (IF task[active].ended THEN 1 ELSE 2) <= MaxReceipts

\* A page given back has nothing left to write.
QuietInv ==
    \A r \in Request :
        Owed("idle", r) \/ OnItsWay("idle", r) \/ r \in ToSet(idleReceipts) =>
            /\ page[r] \notin Writing
            /\ task[r] # None => task[r].outcome # None

\* A save has its grant until the end of its pipeline is proved.
GuardInv ==
    \A r \in Request :
        /\ page[r] \in Writing \/ native[r] = "sent" \/ AnsweredYes("dispatch", r) => Granted(r)
        /\ Owed("settled", r) \/ OnItsWay("settled", r) =>
              /\ page[r] = "over" /\ native[r] # "sent" /\ ~Waiting("dispatch", r)
              /\ task[r] # None => task[r].triggered

CoordInv == TypeOK /\ DispatchInv /\ VerdictMatchesDispatch
RuntimeInv == CoordInv /\ TypeInv /\ CallInv /\ TaskInv /\ PageInv /\ ClaimInv /\ TruthInv /\ FitInv /\ QuietInv

-----------------------------------------------------------------------------
(***************************************************************************)
(* The queue of proofs                                                     *)
(***************************************************************************)
\* No proof more, and none that was not owed.
Keeps(q) ==
    /\ q \in Seq(Receipt) /\ Len(q) <= Len(receipts)
    /\ \A j \in DOMAIN q : \E i \in DOMAIN receipts :
           receipts[i].kind = q[j].kind /\ receipts[i].request = q[j].request
Adds(q, kind, r) ==
    /\ q \in Seq(Receipt) /\ Len(q) <= Len(receipts) + 1
    /\ \A j \in DOMAIN q : \/ q[j].kind = kind /\ q[j].request = r
                           \/ \E i \in DOMAIN receipts :
                                receipts[i].kind = q[j].kind /\ receipts[i].request = q[j].request

\* A queue left alone has no proof more.
LEMMA SameQueue == ASSUME TypeInv PROVE Keeps(receipts)
BY DEF TypeInv, Keeps

\* What is left of a sequence without its i-th element.
LEMMA RemoveAtFx ==
    ASSUME NEW S, NEW s \in Seq(S), NEW i \in 1..Len(s)
    PROVE  /\ RemoveAt(s, i) \in Seq(S) /\ Len(RemoveAt(s, i)) = Len(s) - 1
           /\ \A j \in 1..Len(s) - 1 : RemoveAt(s, i)[j] = IF j < i THEN s[j] ELSE s[j+1]
<1> DEFINE n == Len(s)
           a == SubSeq(s, 1, i-1)
           b == SubSeq(s, i+1, n)
<1>1. n \in Nat /\ i \in 1..n
    OBVIOUS
<1>2. a \in Seq(S) /\ Len(a) = i - 1 /\ \A j \in 1..i-1 : a[j] = s[j]
    BY <1>1
<1>3. b \in Seq(S) /\ Len(b) = n - i
    BY <1>1
<1>4. \A j \in 1..n-i : b[j] = s[i+j]
    BY <1>1, <1>3
<1>5. RemoveAt(s, i) = a \o b
    BY DEF RemoveAt
<1> HIDE DEF a, b, n
<1>6. a \o b \in Seq(S) /\ Len(a \o b) = n - 1
  <2>1. a \in Seq(S) /\ b \in Seq(S) /\ Len(a) = i - 1 /\ Len(b) = n - i
    BY <1>2, <1>3
  <2>2. a \o b \in Seq(S) /\ Len(a \o b) = Len(a) + Len(b)
    BY <2>1
  <2> QED
    BY <1>1, <2>1, <2>2
<1>7. \A j \in 1..n - 1 : (a \o b)[j] = IF j < i THEN a[j] ELSE b[j - (i - 1)]
    BY <1>1, <1>2, <1>3
<1>8. \A j \in 1..n - 1 : (a \o b)[j] = IF j < i THEN s[j] ELSE s[j+1]
  <2> TAKE j \in 1..n - 1
  <2>1. CASE j < i
    BY <1>1, <1>2, <1>7, <2>1
  <2>2. CASE ~(j < i)
    <3>1. j - (i - 1) \in 1..n-i /\ i + (j - (i - 1)) = j + 1
      BY <1>1, <2>2
    <3> QED
      BY <1>4, <1>7, <2>2, <3>1
  <2> QED
    BY <2>1, <2>2
<1> QED
    BY <1>5, <1>6, <1>8 DEF n

\* A proof acknowledged leaves the others.
LEMMA RemoveFx == ASSUME TypeInv, NEW i \in DOMAIN receipts PROVE Keeps(RemoveAt(receipts, i))
<1> DEFINE n == Len(receipts)
           q == RemoveAt(receipts, i)
<1>1. i \in 1..n /\ n \in Nat /\ receipts \in Seq(Receipt)
    BY DEF TypeInv
<1>4. /\ q \in Seq(Receipt) /\ Len(q) = n - 1
      /\ \A j \in 1..n-1 : q[j] = IF j < i THEN receipts[j] ELSE receipts[j+1]
    BY <1>1, RemoveAtFx
<1> HIDE DEF q
<1>5. DOMAIN q = 1..n-1 /\ DOMAIN receipts = 1..n
    BY <1>1, <1>4
<1>6. \A j \in DOMAIN q : \E k \in DOMAIN receipts : receipts[k] = q[j]
  <2> TAKE j \in DOMAIN q
  <2>1. j \in DOMAIN receipts /\ j + 1 \in DOMAIN receipts
    BY <1>1, <1>5
  <2> QED
    BY <1>4, <1>5, <2>1
<1>7. Keeps(q)
    BY <1>1, <1>4, <1>6 DEF Keeps
<1> QED
    BY <1>7 DEF q

\* A proof rewritten in place stays what it is a proof of.
LEMMA RewriteFx ==
    ASSUME TypeInv, NEW i \in DOMAIN receipts, NEW e \in Receipt,
           e.kind = receipts[i].kind, e.request = receipts[i].request
    PROVE  Keeps([receipts EXCEPT ![i] = e])
<1>1. receipts \in Seq(Receipt) /\ DOMAIN receipts = 1..Len(receipts) /\ Len(receipts) \in Nat
    BY DEF TypeInv
<1> DEFINE q == [receipts EXCEPT ![i] = e]
<1>2. q \in Seq(Receipt) /\ Len(q) = Len(receipts) /\ DOMAIN q = DOMAIN receipts
    BY <1>1
<1>3. \A j \in DOMAIN q : q[j].kind = receipts[j].kind /\ q[j].request = receipts[j].request
    BY <1>1
<1> HIDE DEF q
<1>4. Keeps(q)
    BY <1>1, <1>2, <1>3 DEF Keeps
<1> QED
    BY <1>4 DEF q

\* What may become of a proof's sender.
LEMMA SenderFx ==
    ASSUME TypeInv, NEW i \in DOMAIN receipts
    PROVE  /\ [receipts[i] EXCEPT !.left = 0] \in Receipt
           /\ [receipts[i] EXCEPT !.left = 0, !.beat = FALSE] \in Receipt
           /\ receipts[i].left > 1 => [receipts[i] EXCEPT !.left = @ - 1] \in Receipt
           /\ [receipts[i] EXCEPT !.left = 1, !.beat = TRUE] \in Receipt
<1>1. receipts[i] \in Receipt
    BY DEF TypeInv
<1>2. receipts[i] \in [kind : Receipts, request : Request, left : 0..2, beat : BOOLEAN]
    BY <1>1 DEF Receipt
<1>3. receipts[i].left \in 0..2 /\ 0 \in 0..2 /\ 1 \in 0..2
    BY <1>2
<1>4. receipts[i].left > 1 => receipts[i].left - 1 \in 0..2
    BY <1>3
<1> QED
    BY <1>2, <1>3, <1>4 DEF Receipt

\* A proof kept for a heartbeat, in place or at the back, is the proof it was.
LEMMA KeptFx == ASSUME TypeInv, NEW i \in DOMAIN receipts PROVE Keeps(Kept(i))
<1>1. i \in 1..Len(receipts) /\ receipts \in Seq(Receipt) /\ receipts[i] \in Receipt
    BY DEF TypeInv
<1>2. CASE receipts[i].beat
  <2> DEFINE e == [receipts[i] EXCEPT !.left = 0, !.beat = FALSE]
             q == RemoveAt(receipts, i)
  <2>1. e \in Receipt /\ e.kind = receipts[i].kind /\ e.request = receipts[i].request
    BY <1>1, SenderFx DEF Receipt
  <2>2. q \in Seq(Receipt) /\ Len(q) = Len(receipts) - 1 /\ Keeps(q)
    BY <1>1, RemoveFx, RemoveAtFx
  <2>5. Kept(i) = Append(q, e)
    BY <1>2 DEF Kept
  <2> HIDE DEF e, q
  <2>3. Append(q, e) \in Seq(Receipt) /\ Len(Append(q, e)) = Len(q) + 1 /\ DOMAIN Append(q, e) = 1..Len(q) + 1
    BY <2>1, <2>2
  <2>4. \A j \in 1..Len(q) + 1 : Append(q, e)[j] = IF j = Len(q) + 1 THEN e ELSE q[j]
    BY <2>1, <2>2
  <2>6. \A j \in 1..Len(q) + 1 : j # Len(q) + 1 => j \in DOMAIN q
    BY <2>2
  <2>7. Len(Append(q, e)) <= Len(receipts)
    BY <1>1, <2>2, <2>3
  <2>8. \A j \in 1..Len(q) + 1 : \E k \in DOMAIN receipts :
            receipts[k].kind = Append(q, e)[j].kind /\ receipts[k].request = Append(q, e)[j].request
    BY <2>1, <2>2, <2>4, <2>6 DEF Keeps
  <2> QED
    BY <2>3, <2>5, <2>7, <2>8 DEF Keeps
<1>3. CASE ~receipts[i].beat
  <2> DEFINE e == [receipts[i] EXCEPT !.left = 0]
  <2>1. e \in Receipt /\ e.kind = receipts[i].kind /\ e.request = receipts[i].request
    BY <1>1, SenderFx DEF Receipt
  <2>2. Kept(i) = [receipts EXCEPT ![i] = e]
    BY <1>3 DEF Kept
  <2> QED
    BY <2>1, <2>2, RewriteFx
<1> QED
    BY <1>2, <1>3

\* So is one with an attempt less.
LEMMA TriedFx ==
    ASSUME TypeInv, NEW i \in DOMAIN receipts, receipts[i].left > 1
    PROVE  Keeps([receipts EXCEPT ![i].left = @ - 1])
<1> DEFINE e == [receipts[i] EXCEPT !.left = @ - 1]
<1>1. receipts[i] \in Receipt
    BY DEF TypeInv
<1>2. e \in Receipt /\ e.kind = receipts[i].kind /\ e.request = receipts[i].request
    BY <1>1, SenderFx DEF Receipt
<1>3. Keeps([receipts EXCEPT ![i] = e])
    BY <1>2, RewriteFx
<1> QED
    BY <1>3

\* And those a heartbeat begins to send.
LEMMA BeatFx ==
    ASSUME TypeInv
    PROVE  Keeps([i \in DOMAIN receipts |-> IF i <= 2 /\ receipts[i].left = 0
                                            THEN [receipts[i] EXCEPT !.left = 1, !.beat = TRUE] ELSE receipts[i]])
<1> DEFINE e(i) == IF i <= 2 /\ receipts[i].left = 0
                   THEN [receipts[i] EXCEPT !.left = 1, !.beat = TRUE] ELSE receipts[i]
           q == [i \in DOMAIN receipts |-> e(i)]
<1>1. DOMAIN receipts = 1..Len(receipts) /\ Len(receipts) \in Nat /\ \A i \in DOMAIN receipts : receipts[i] \in Receipt
    BY DEF TypeInv
<1>2. ASSUME NEW i \in DOMAIN receipts
      PROVE  e(i) \in Receipt /\ e(i).kind = receipts[i].kind /\ e(i).request = receipts[i].request
    BY <1>1, SenderFx DEF Receipt
<1> HIDE DEF e
<1>3. q \in Seq(Receipt) /\ Len(q) = Len(receipts) /\ DOMAIN q = DOMAIN receipts
    BY <1>1, <1>2
<1>4. \A i \in DOMAIN q : q[i] = e(i)
    OBVIOUS
<1> HIDE DEF q
<1>5. Keeps(q)
    BY <1>1, <1>2, <1>3, <1>4 DEF Keeps
<1> QED
    BY <1>5 DEF e, q

\* One sent to the back is still there.
LEMMA ToBackFx == ASSUME TypeInv, NEW q, Keeps(q), NEW i \in DOMAIN q PROVE Keeps(ToBack(q, i))
<1> DEFINE n == Len(q)
           rest == RemoveAt(q, i)
           b == Append(rest, q[i])
<1>1. q \in Seq(Receipt) /\ n \in Nat /\ DOMAIN q = 1..n /\ i \in 1..n /\ q[i] \in Receipt
    BY DEF Keeps
<1>2. /\ rest \in Seq(Receipt) /\ Len(rest) = n - 1
      /\ \A j \in 1..n-1 : rest[j] = IF j < i THEN q[j] ELSE q[j+1]
    BY <1>1, RemoveAtFx
<1> HIDE DEF rest, n
<1>3. /\ b \in Seq(Receipt) /\ Len(b) = n /\ DOMAIN b = 1..n
      /\ \A j \in 1..n : b[j] = IF j = n THEN q[i] ELSE rest[j]
    BY <1>1, <1>2
<1> HIDE DEF b
<1>4. \A j \in DOMAIN b : \E k \in DOMAIN q : q[k] = b[j]
  <2> TAKE j \in DOMAIN b
  <2>1. j = n \/ (j \in 1..n-1 /\ j \in DOMAIN q /\ j + 1 \in DOMAIN q)
    BY <1>1, <1>3
  <2> QED
    BY <1>1, <1>2, <1>3, <2>1
<1>5. n <= Len(receipts) /\ \A k \in DOMAIN q : \E i1 \in DOMAIN receipts :
            receipts[i1].kind = q[k].kind /\ receipts[i1].request = q[k].request
    BY DEF Keeps, n
<1>6. \A j \in DOMAIN b : \E i1 \in DOMAIN receipts :
            receipts[i1].kind = b[j].kind /\ receipts[i1].request = b[j].request
  <2> TAKE j \in DOMAIN b
  <2>1. PICK k \in DOMAIN q : q[k] = b[j]
    BY <1>4
  <2> QED
    BY <1>5, <2>1
<1>7. Keeps(b)
    BY <1>3, <1>5, <1>6 DEF Keeps
<1> QED
    BY <1>7 DEF b, rest, ToBack

\* And those in line when a heartbeat comes.
LEMMA HeartbeatFx == ASSUME TypeInv, HeartbeatTick PROVE Keeps(receipts')
<1> DEFINE tried == [i \in DOMAIN receipts |-> IF i <= 2 /\ receipts[i].left = 0
                                              THEN [receipts[i] EXCEPT !.left = 1, !.beat = TRUE] ELSE receipts[i]]
           first == IF BusyAt(1) THEN ToBack(tried, 1) ELSE tried
<1>1. Keeps(tried) /\ DOMAIN tried = DOMAIN receipts
    BY BeatFx
<1>2. receipts' = IF BusyAt(2) THEN ToBack(first, IF BusyAt(1) THEN 1 ELSE 2) ELSE first
    BY DEF HeartbeatTick
<1> HIDE DEF tried
<1>3. Keeps(first)
    BY <1>1, ToBackFx DEF BusyAt
<1>4. BusyAt(2) => 2 \in DOMAIN first /\ 1 \in DOMAIN first
  <2>1. ASSUME BusyAt(2) PROVE Len(first) >= 2 /\ DOMAIN first = 1..Len(first)
    <3>1. 2 \in 1..Len(receipts) /\ Len(receipts) \in Nat
      BY <2>1 DEF BusyAt, TypeInv
    <3>2. tried \in Seq(Receipt) /\ DOMAIN tried = 1..Len(tried) /\ Len(tried) = Len(receipts)
      BY <1>1, <3>1 DEF Keeps, TypeInv
    <3>3. Len(RemoveAt(tried, 1)) = Len(tried) - 1 /\ RemoveAt(tried, 1) \in Seq(Receipt) /\ tried[1] \in Receipt
      <4>1. 1 \in 1..Len(tried)
        BY <3>1, <3>2
      <4>2. tried[1] \in Receipt
        BY <3>2, <4>1
      <4>3. \A s \in Seq(Receipt) : \A i \in 1..Len(s) :
                RemoveAt(s, i) \in Seq(Receipt) /\ Len(RemoveAt(s, i)) = Len(s) - 1
        BY RemoveAtFx
      <4> QED
        BY <3>2, <4>1, <4>2, <4>3
    <3>4. Len(ToBack(tried, 1)) = Len(tried)
      <4> DEFINE q == RemoveAt(tried, 1)
      <4>1. q \in Seq(Receipt) /\ Len(q) = Len(tried) - 1 /\ Len(tried) \in Nat
        BY <3>1, <3>2, <3>3
      <4>2. ToBack(tried, 1) = Append(q, tried[1])
        BY DEF ToBack
      <4> HIDE DEF q
      <4> QED
        BY <4>1, <4>2
    <3> QED
      BY <1>3, <3>1, <3>2, <3>4 DEF Keeps
  <2> QED
    BY <2>1
<1> HIDE DEF first
<1> QED
    BY <1>2, <1>3, <1>4, ToBackFx

\* A proof retained is the one that comes.
LEMMA RetainedFx ==
    ASSUME TypeInv, NEW q, Keeps(q), NEW kind \in Receipts, NEW r \in Request
    PROVE  Adds(Retained(q, kind, r), kind, r)
<1> DEFINE e == [kind |-> kind, request |-> r, left |-> 2, beat |-> FALSE]
<1>1. e \in Receipt /\ e.kind = kind /\ e.request = r
    BY DEF Receipt
<1>2. q \in Seq(Receipt) /\ Len(q) \in Nat /\ Len(receipts) \in Nat
    BY DEF Keeps, TypeInv
<1>4. Retained(q, kind, r) = Append(q, e)
    BY DEF Retained
<1> HIDE DEF e
<1>3. /\ Append(q, e) \in Seq(Receipt) /\ Len(Append(q, e)) = Len(q) + 1
      /\ DOMAIN Append(q, e) = 1..Len(q) + 1
      /\ \A j \in 1..Len(q) + 1 : Append(q, e)[j] = IF j = Len(q) + 1 THEN e ELSE q[j]
    BY <1>1, <1>2
<1>5. \A j \in 1..Len(q) + 1 : j # Len(q) + 1 => j \in DOMAIN q
    BY <1>2
<1>6. Len(Append(q, e)) <= Len(receipts) + 1
    BY <1>2, <1>3 DEF Keeps
<1> QED
    BY <1>1, <1>3, <1>4, <1>5, <1>6 DEF Keeps, Adds

\* The coordinator remembers no receipt but the new one.
LEMMA RememberFx ==
    ASSUME NEW S, NEW q \in Seq(S), NEW e \in S
    PROVE  ToSet(Remember(q, e)) \subseteq ToSet(q) \cup {e}
<1>1. CASE Len(q) < ReceiptLimit
  <2>1. /\ Append(q, e) \in Seq(S) /\ DOMAIN Append(q, e) = 1..Len(q) + 1 /\ DOMAIN q = 1..Len(q)
        /\ \A j \in 1..Len(q) + 1 : Append(q, e)[j] = IF j = Len(q) + 1 THEN e ELSE q[j]
    OBVIOUS
  <2>2. \A j \in 1..Len(q) + 1 : j # Len(q) + 1 => j \in DOMAIN q
    BY <2>1
  <2> QED
    BY <1>1, <2>1, <2>2 DEF Remember, ToSet
<1>2. CASE ~(Len(q) < ReceiptLimit)
  <2> DEFINE t == Tail(q)  n == Len(q)
  <2>1. q # <<>> /\ n \in Nat /\ n >= 1 /\ DOMAIN q = 1..n
    BY <1>2, TimeoutAssumption
  <2>2. t \in Seq(S) /\ Len(t) = n - 1 /\ \A j \in 1..n - 1 : t[j] = q[j+1]
    BY <2>1
  <2>6. Remember(q, e) = Append(t, e)
    BY <1>2 DEF Remember
  <2> HIDE DEF t, n
  <2>7. Append(t, e) \in Seq(S) /\ Len(Append(t, e)) = Len(t) + 1 /\ DOMAIN Append(t, e) = 1..Len(Append(t, e))
    BY <2>2
  <2>8. \A j \in 1..Len(t) + 1 : Append(t, e)[j] = IF j = Len(t) + 1 THEN e ELSE t[j]
    BY <2>2
  <2>9. Len(t) + 1 = n
    BY <2>1, <2>2
  <2>3. DOMAIN Append(t, e) = 1..n /\ \A j \in 1..n : Append(t, e)[j] = IF j = n THEN e ELSE t[j]
    BY <2>7, <2>8, <2>9
  <2>4. \A j \in 1..n : j # n => j \in 1..n - 1 /\ j + 1 \in 1..n
    BY <2>1
  <2>5. \A j \in 1..n : Append(t, e)[j] = e \/ \E k \in DOMAIN q : Append(t, e)[j] = q[k]
    BY <2>1, <2>2, <2>3, <2>4
  <2> QED
    BY <2>3, <2>5, <2>6 DEF ToSet
<1> QED
    BY <1>1, <1>2

-----------------------------------------------------------------------------
(***************************************************************************)
(* The coordinator, as the Connector's state depends on it                 *)
(***************************************************************************)
\* A call or a tick that claims, confirms, retires and settles nothing.
Calm ==
    /\ \A r \in Request : Unclaimed(r)' => Unclaimed(r)
    /\ ToSet(idleReceipts)' \subseteq ToSet(idleReceipts)
    /\ escaped \subseteq escaped'
    /\ \A r \in Request : verdict'[r] = "CONFIRMED" => verdict[r] = "CONFIRMED"

\* What a task presents is an invocation of its request.
LEMMA PresentedFx ==
    ASSUME NEW r \in Request
    PROVE  Presented(r) \in Invocation /\ Presented(r).request = r
<1>1. (CHOOSE tab \in Tab : TRUE) \in Tab /\ (CHOOSE session \in Session : TRUE) \in Session
    BY RuntimeAssumption
<1> QED
    BY <1>1 DEF Presented, Invocation

\* Expiries finish an attempt, as unconfirmed.
LEMMA ExpiryCalm ==
    ASSUME TypeOK, attempt' = LiveAttempt, verdict' = LiveVerdict, UNCHANGED <<used, escaped, idleReceipts>>
    PROVE  Calm
<1>1. CASE Overdue
  <2>1. attempt \in Attempt
    BY <1>1 DEF Overdue, Running, TypeOK
  <2>2. attempt'.stage = "FINISHED"
    BY <1>1, <2>1 DEF LiveAttempt, Finished, Attempt
  <2>3. \A r \in Request : verdict'[r] = "CONFIRMED" => verdict[r] = "CONFIRMED"
    BY <1>1, <2>1 DEF LiveVerdict, TypeOK
  <2> QED
    BY <2>2, <2>3 DEF Calm, Unclaimed
<1>2. CASE ~Overdue
    BY <1>2 DEF LiveAttempt, LiveVerdict, Calm, Unclaimed
<1> QED
    BY <1>1, <1>2

\* A coordinator left alone is calm.
LEMMA UnchangedCalm == ASSUME UNCHANGED captureVars PROVE Calm /\ grants' = grants
BY DEF captureVars, coordinatorVars, Calm, Unclaimed

\* A snapshot and a heartbeat only let deadlines run out.
LEMMA ExpireCalm ==
    ASSUME TypeOK, NEW reachable \in BOOLEAN, Snapshot \/ Heartbeat(reachable) PROVE Calm /\ grants' = grants
BY ExpiryCalm DEF Snapshot, Heartbeat, Expire, ExpireAttempt

\* A command is given of an attempt nobody had claimed, which is claimed now.
LEMMA ClaimFx ==
    ASSUME TypeOK, DispatchInv, ClaimCommand(TRUE)
    PROVE  /\ Calm /\ grants' = grants
           /\ attempt.request \in Request /\ Unclaimed(attempt.request) /\ ~Unclaimed(attempt.request)'
           /\ attempt'.request = attempt.request
<1>1. Running(attempt) /\ attempt \in Attempt /\ LiveAttempt = attempt
    BY StillRunning DEF ClaimCommand
<1>2. attempt # None /\ attempt.stage = "WAITING_FOR_CONNECTOR" /\ attempt.request \in used
    BY <1>1 DEF ClaimCommand, Running, DispatchInv
<1>3. attempt'.stage = "CONNECTOR_ACTIVE" /\ attempt'.request = attempt.request
    BY <1>1 DEF ClaimCommand, Attempt
<1>4. UNCHANGED <<grants, idleReceipts, used, escaped, verdict>>
    BY DEF ClaimCommand
<1>5. attempt.request \in Request /\ Unclaimed(attempt.request) /\ ~Unclaimed(attempt.request)'
    BY <1>1, <1>2, <1>3, <1>4 DEF Unclaimed, Attempt
<1>6. \A r \in Request : Unclaimed(r)' => Unclaimed(r)
    BY <1>3, <1>4 DEF Unclaimed
<1> QED
    BY <1>3, <1>4, <1>5, <1>6 DEF Calm

\* An access report decides nothing by itself.
LEMMA AccessCalm ==
    ASSUME TypeOK, NEW r, NEW tab, NEW reason, RecordAccess(r, tab, reason)
    PROVE  Calm /\ grants' = grants
<1>1. Running(attempt) /\ attempt \in Attempt /\ LiveAttempt = attempt /\ attempt.stage = "CONNECTOR_ACTIVE"
    BY StillRunning DEF RecordAccess, Unreported, ActiveFor
<1>2. attempt'.stage = "CONNECTOR_ACTIVE"
    BY <1>1 DEF RecordAccess, Attempt
<1> QED
    BY <1>2 DEF RecordAccess, Calm, Unclaimed

\* A permission comes with its grant.
LEMMA DispatchFx ==
    ASSUME TypeOK, NEW r \in Request, AuthorizeParentDispatch(Presented(r), TRUE)
    PROVE  Calm /\ grants \subseteq grants' /\ Granted(r)' /\ Escaped(r)'
<1>1. Running(attempt) /\ attempt \in Attempt /\ LiveAttempt = attempt /\ attempt.stage = "CONNECTOR_ACTIVE"
    BY StillRunning DEF AuthorizeParentDispatch, ActiveFor
<1>2. attempt'.stage = "CONNECTOR_ACTIVE"
    BY <1>1 DEF AuthorizeParentDispatch, Attempt
<1>3. Calm
    BY <1>2 DEF AuthorizeParentDispatch, Calm, Unclaimed
<1>4. Presented(r).request = r /\ Presented(r)' = Presented(r)
    BY PresentedFx DEF Presented
<1>5. /\ escaped' = escaped \cup {Presented(r)}
      /\ grants' = grants \cup {[invocation |-> Presented(r), workspace |-> WorkspaceOf[attempt.paper]]}
    BY DEF AuthorizeParentDispatch
<1>6. Escaped(r)'
    BY <1>4, <1>5 DEF Escaped
<1>7. Granted(r)'
  <2> DEFINE grant == [invocation |-> Presented(r), workspace |-> WorkspaceOf[attempt.paper]]
  <2>1. grant \in grants' /\ grant.invocation = Presented(r)'
    BY <1>4, <1>5
  <2> HIDE DEF grant
  <2> QED
    BY <2>1 DEF Granted
<1> QED
    BY <1>3, <1>5, <1>6, <1>7

\* A result confirms the one request it is of, and only as CONFIRMED.
LEMMA ResultFx ==
    ASSUME TypeOK, NEW r \in Request, NEW outcome \in Outcome, NEW failure,
           SubmitConnectorResult(Presented(r), outcome, failure)
    PROVE  /\ \A s \in Request : Unclaimed(s)' => Unclaimed(s)
           /\ idleReceipts' = idleReceipts /\ escaped' = escaped /\ grants' = grants
           /\ \A s \in Request : verdict'[s] = "CONFIRMED" => verdict[s] = "CONFIRMED" \/ (s = r /\ outcome = "CONFIRMED")
<1>1. Running(attempt) /\ attempt \in Attempt /\ attempt.request = r
    BY StillRunning, PresentedFx DEF SubmitConnectorResult, Acceptable, ActiveFor
<1>2. attempt'.stage = "FINISHED"
    BY <1>1 DEF SubmitConnectorResult, Finish, Finished, Attempt
<1>3. verdict' = [verdict EXCEPT ![r] = outcome] /\ verdict \in [Request -> Outcome \cup {None}]
    BY <1>1 DEF SubmitConnectorResult, Finish, TypeOK
<1> QED
    BY <1>2, <1>3 DEF SubmitConnectorResult, Unclaimed

\* A browser given back is remembered, and nothing else happens to a save.
LEMMA IdleFx ==
    ASSUME TypeOK, NEW r \in Request, ReportImportBrowserIdle(r)
    PROVE  /\ \A s \in Request : Unclaimed(s)' => Unclaimed(s)
           /\ ToSet(idleReceipts') \subseteq ToSet(idleReceipts) \cup {r}
           /\ escaped' = escaped /\ grants' = grants /\ verdict' = verdict
<1>1. idleReceipts' = Remember(idleReceipts, r)
    BY DEF ReportImportBrowserIdle
<1>2. ToSet(idleReceipts') \subseteq ToSet(idleReceipts) \cup {r}
    BY <1>1, RememberFx DEF TypeOK
<1> QED
    BY <1>2 DEF ReportImportBrowserIdle, Unclaimed

\* The end of a pipeline takes the grant of its own request only.
LEMMA SettledFx ==
    ASSUME TypeOK, NEW r \in Request, ReportNativeSaveSettled(Presented(r))
    PROVE  /\ Calm
           /\ \A s \in Request : Granted(s) => Granted(s)' \/ s = r
<1>1. Calm
    BY DEF ReportNativeSaveSettled, Calm, Unclaimed
<1>2. PICK settled \in grants : settled.invocation = Presented(r) /\ grants' = grants \ {settled}
    BY DEF ReportNativeSaveSettled
<1>3. \A s \in Request : Presented(s) = Presented(r) => s = r
    BY PresentedFx
<1>4. \A s \in Request : Presented(s)' = Presented(s)
    BY DEF Presented
<1> QED
    BY <1>1, <1>2, <1>3, <1>4 DEF Granted

\* The importer's own calls, the clock, and a restart.
LEMMA ImportCalm == ASSUME TypeOK, ImportSide PROVE Calm /\ grants' = grants
<1>1. ASSUME NEW owner \in Owner, BrowserTask("import", owner) PROVE Calm /\ grants' = grants
    BY <1>1, ExpiryCalm DEF BrowserTask, ReserveBrowserTask, ExtendBrowserTask, ReleaseBrowserTask, ExpireAttempt,
       Calm, Unclaimed
<1>2. ASSUME NEW request \in Request, NEW paper \in Paper, StartCapture(request, paper, TRUE)
      PROVE  Calm /\ grants' = grants
    BY <1>2 DEF StartCapture, Calm, Unclaimed
<1>3. ASSUME NEW paper \in Paper, StopUndispatched(paper) PROVE Calm /\ grants' = grants
  <2>1. CASE Stoppable(paper)
    <3>1. attempt \in Attempt /\ Running(attempt)
      BY <2>1, StillRunning DEF Stoppable
    <3>2. attempt'.stage = "FINISHED"
      BY <1>3, <2>1, <3>1 DEF StopUndispatched, Finish, Finished, Attempt
    <3>3. \A r \in Request : verdict'[r] = "CONFIRMED" => verdict[r] = "CONFIRMED"
      BY <1>3, <2>1, <3>1 DEF StopUndispatched, Finish, TypeOK
    <3> QED
      BY <1>3, <3>2, <3>3 DEF StopUndispatched, Calm, Unclaimed
  <2>2. CASE ~Stoppable(paper)
    BY <1>3, <2>2, ExpiryCalm DEF StopUndispatched, ExpireAttempt
  <2> QED
    BY <2>1, <2>2
<1>4. CASE WaitForCompletion
    BY <1>4, ExpiryCalm DEF WaitForCompletion
<1>5. CASE ClaimCompletion \/ FinishResolution
    BY <1>5 DEF ClaimCompletion, FinishResolution, Calm, Unclaimed
<1> QED
    BY <1>1, <1>2, <1>3, <1>4, <1>5 DEF ImportSide

\* Time passes; what runs out is not confirmed.
LEMMA ClockCalm == ASSUME TypeOK, Tick PROVE Calm /\ grants' = grants
<1>1. attempt # None => attempt \in Attempt
    BY DEF TypeOK
<1>2. attempt' # None => attempt # None /\ attempt'.stage = attempt.stage /\ attempt'.request = attempt.request
    BY <1>1 DEF Tick, Running, Attempt
<1> QED
    BY <1>2 DEF Tick, Calm, Unclaimed

\* A restart of the web process forgets, and confirms nothing.
LEMMA RestartCalm == ASSUME Restart PROVE Calm
<1>1. ToSet(idleReceipts') = {}
    BY DEF Restart, ToSet
<1> QED
    BY <1>1 DEF Restart, Calm, Unclaimed

-----------------------------------------------------------------------------
(***************************************************************************)
(* What a step may do, as the invariants see it                            *)
(***************************************************************************)
\* No call more; what is new is that one is given up or answered.
Dwindle ==
    /\ calls' \subseteq Call /\ losses' \in Nat
    /\ \A d \in calls' : \E c \in calls :
          /\ c.op = d.op /\ c.request = d.request
          /\ d.waited => c.waited
          /\ d.answer # "none" => d.waited
          /\ d.op = "claim" => (d.answer = "yes" <=> c.answer = "yes")
          /\ d.op = "dispatch" /\ d.answer = "yes" =>
                c.answer = "yes" \/ (Escaped(d.request)' /\ Granted(d.request)')
    /\ \A c, d \in calls' : Rivals(c, d) => c = d

\* The task of r goes on to u and its page with it.
Becomes(r, u) ==
    LET t == task[r] IN
    /\ u \in CaptureTask /\ Sane(u)
    /\ u.accepted = t.accepted /\ u.triggered = t.triggered
    /\ u.parent => t.parent \/ page[r] = "told"
    /\ t.outcome # None => u.outcome # None
    /\ t.ended => u.ended
    /\ Closed(u) => Closed(t) \/ (t.triggered /\ page'[r] = "over")
    /\ ~t.triggered /\ page'[r] = "over" => u.outcome # None

PageGoes(r) ==
    \E now \in Page :
        /\ page' = [page EXCEPT ![r] = now]
        /\ \/ now \in {page[r], "over"}
           \/ page[r] = "told" /\ now = "attaching"
           \/ page[r] = "asking" /\ now \in {"checking", "failed"}

\* The queue shrinks, or a proof comes to it: that the save is settled, or that the
\* browser is free.
QueueGoes(r) ==
    LET t == task[r] u == task'[r] IN
    \/ active' = active /\ u # None /\ Keeps(receipts')
    \/ /\ active' = active /\ active = r
       /\ ~t.ended /\ t.triggered /\ u # None /\ u.ended
       /\ page[r] = "done" /\ page'[r] = "over"
       /\ Adds(receipts', "settled", r)
    \/ /\ active = r /\ active' = None
       /\ u # None => u.outcome # None
       /\ u = None => /\ ~Waiting("access", r) /\ ~Waiting("dispatch", r)
                      /\ \A call \in calls : call.op = "result" => call.request # r
       /\ page'[r] \notin Writing
       /\ Adds(receipts', "idle", r)

Goes(r) ==
    /\ task[r] # None
    /\ \E u \in CaptureTask \cup {None} :
          /\ task' = [task EXCEPT ![r] = u]
          /\ u # None => Becomes(r, u)
    /\ PageGoes(r)
    /\ QueueGoes(r)
    /\ UNCHANGED <<captureVars, native>>
Works(r) == Goes(r) /\ Dwindle
Asks(r) == Goes(r) /\ task'[r] # None /\ calls' = calls \cup {Sent("access", r)} /\ UNCHANGED losses

\* The Connector takes the command it was given; the web process gives one.
Takes(call) ==
    /\ call.op = "claim" /\ call.answer = "yes"
    /\ Heard(call, "yes")
    /\ active' = call.request
    /\ task' = [task EXCEPT ![call.request] = NewTask]
    /\ UNCHANGED <<captureVars, receipts, page, native>>
Gives(call) ==
    /\ call \in calls /\ call.op = "claim" /\ call.answer = "none"
    /\ ClaimCommand(TRUE)
    /\ calls' = (calls \ {call}) \cup
                IF call.waited THEN {[call EXCEPT !.request = attempt.request, !.answer = "yes"]} ELSE {}
    /\ UNCHANGED <<active, task, receipts, losses, page, native>>

\* Everything else: the coordinator goes on, calls come to their end.
Drifts ==
    /\ \A r \in Request : Unclaimed(r)' => Unclaimed(r)
    /\ \A r \in ToSet(idleReceipts)' : r \in ToSet(idleReceipts) \/ OnItsWay("idle", r)
    /\ escaped \subseteq escaped'
    /\ \A r \in Request : verdict'[r] = "CONFIRMED" => verdict[r] = "CONFIRMED" \/ native[r] = "saved"
    /\ Dwindle
    /\ Keeps(receipts')
    /\ UNCHANGED <<active, task, page, native>>

GrantsStay == \A r \in Request : Granted(r) => Granted(r)' \/ OnItsWay("settled", r)

\* The page goes on although the task takes no notice.
Unheeded(r) ==
    /\ \E move \in {<<"asking", "failed">>, <<"told", "attaching">>, <<"done", "over">>, <<"failed", "over">>} :
          Arrives(r, move[1], move[2])
    /\ UNCHANGED <<captureVars, active, task, receipts, calls, losses, native>>
PageWorks(r) == Unheeded(r) \/ PageMoves(r) \/ PageSaves(r) \/ ZoteroAnswers(r) \/ PageLearns(r)
Moves ==
    \/ \E r \in Request : Works(r) \/ Asks(r) \/ SendResult(r) \/ AskCoordinator(r) \/ Trigger(r) \/ PageWorks(r)
    \/ ClaimTick
    \/ \E i \in DOMAIN receipts : SendReceipt(i)
    \/ \E call \in calls : Takes(call) \/ Gives(call) \/ HearDispatch(call)
    \/ RuntimeRestarts
    \/ Drifts

-----------------------------------------------------------------------------

\* The calls that come of a call.
LEMMA TypedCall ==
    ASSUME TypeInv, NEW call \in calls
    PROVE  /\ [call EXCEPT !.waited = FALSE] \in Call
           /\ \A answer \in {"yes", "no"} : [call EXCEPT !.answer = answer] \in Call
           /\ \A r \in Request : [call EXCEPT !.request = r, !.answer = "yes"] \in Call
<1>1. call \in [op : {"claim", "access", "dispatch", "result"} \cup Receipts,
                request : Request \cup {None}, waited : BOOLEAN, answer : {"none", "yes", "no"}]
    BY DEF TypeInv, Call
<1> QED
    BY <1>1 DEF Call

\* A call that is heard is out no longer, and no other takes its place.
LEMMA HeardFx ==
    ASSUME TypeInv, CallInv, NEW call, NEW answer, Heard(call, answer)
    PROVE  /\ Dwindle
           /\ call \in calls /\ call.waited
           /\ \A d \in calls' : ~Rivals(call, d)
<1>1. call \in calls /\ call.waited
    BY DEF Heard
<1> DEFINE lost == [call EXCEPT !.waited = FALSE]
<1>2. call \in Call /\ losses \in Nat
    BY <1>1 DEF TypeInv
<1>3. /\ lost \in Call /\ lost.op = call.op /\ lost.request = call.request
      /\ lost.answer = call.answer /\ ~lost.waited
    BY <1>1, <1>2, TypedCall DEF Call
<1> HIDE DEF lost
<1>4. CASE calls' = calls \ {call} /\ UNCHANGED losses
  <2>1. \A d \in calls' : d \in calls /\ (d.answer # "none" => d.waited) /\ ~Rivals(call, d)
    BY <1>1, <1>4 DEF CallInv
  <2>2. calls' \subseteq Call /\ losses' \in Nat /\ \A c, d \in calls' : Rivals(c, d) => c = d
    BY <1>2, <1>4 DEF TypeInv, CallInv
  <2> QED
    BY <1>1, <2>1, <2>2 DEF Dwindle
<1>5. CASE call.answer = "none" /\ calls' = (calls \ {call}) \cup {lost} /\ losses' = losses + 1
  <2>1. calls' \subseteq Call /\ losses' \in Nat
    BY <1>2, <1>3, <1>5 DEF TypeInv
  <2>2. \A c, d \in calls' : Rivals(c, d) => c = d
    BY <1>3, <1>5 DEF CallInv, Rivals
  <2>3. \A d \in calls' : ~Rivals(call, d)
    BY <1>1, <1>3, <1>5 DEF CallInv, Rivals
  <2>4. \A d \in calls' : IF d = lost THEN TRUE ELSE d \in calls /\ (d.answer # "none" => d.waited)
    BY <1>5 DEF CallInv
  <2> QED
    BY <1>1, <1>3, <1>5, <2>1, <2>2, <2>3, <2>4 DEF Dwindle
<1>6. \/ calls' = calls \ {call} /\ UNCHANGED losses
      \/ call.answer = "none" /\ calls' = (calls \ {call}) \cup {lost} /\ losses' = losses + 1
      \/ call.answer # "none" /\ calls' = calls \ {call} /\ losses' = losses + 1
    BY DEF Heard, lost
<1>7. CASE call.answer # "none" /\ calls' = calls \ {call} /\ losses' = losses + 1
  <2>1. \A d \in calls' : d \in calls /\ (d.answer # "none" => d.waited) /\ ~Rivals(call, d)
    BY <1>1, <1>7 DEF CallInv
  <2>2. calls' \subseteq Call /\ losses' \in Nat /\ \A c, d \in calls' : Rivals(c, d) => c = d
    BY <1>2, <1>7 DEF TypeInv, CallInv
  <2> QED
    BY <1>1, <2>1, <2>2 DEF Dwindle
<1> QED
    BY <1>4, <1>5, <1>6, <1>7

\* A call that is answered is the call it was, and an answered permission has its grant.
LEMMA AnsweredFx ==
    ASSUME TypeInv, CallInv, NEW call \in calls, call.answer = "none", NEW answer \in {"yes", "no"},
           Answered(call, answer), UNCHANGED losses,
           answer = "yes" => call.op # "claim",
           answer = "yes" /\ call.op = "dispatch" => Escaped(call.request)' /\ Granted(call.request)'
    PROVE  Dwindle
<1> DEFINE told == [call EXCEPT !.answer = answer]
<1>1. call \in Call /\ losses' \in Nat
    BY DEF TypeInv
<1>2. /\ told \in Call /\ told.op = call.op /\ told.request = call.request
      /\ told.answer = answer /\ told.waited = call.waited
    BY <1>1, TypedCall DEF Call
<1> HIDE DEF told
<1>3. calls' = (calls \ {call}) \cup IF call.waited THEN {told} ELSE {}
    BY DEF Answered, told
<1>4. calls' \subseteq Call
    BY <1>2, <1>3 DEF TypeInv
<1>5. \A c, d \in calls' : Rivals(c, d) => c = d
    BY <1>2, <1>3 DEF CallInv, Rivals
<1>6. \A d \in calls' : d \in calls \/ (d = told /\ call.waited)
    BY <1>3
<1>7. \A d \in calls' : \E c \in calls :
          /\ c.op = d.op /\ c.request = d.request
          /\ d.waited => c.waited
          /\ d.answer # "none" => d.waited
          /\ d.op = "claim" => (d.answer = "yes" <=> c.answer = "yes")
          /\ d.op = "dispatch" /\ d.answer = "yes" =>
                c.answer = "yes" \/ (Escaped(d.request)' /\ Granted(d.request)')
  <2> TAKE d \in calls'
  <2>1. CASE d \in calls
    <3>1. d.answer # "none" => d.waited
      BY <2>1 DEF CallInv
    <3> QED
      BY <2>1, <3>1
  <2>2. CASE d = told /\ call.waited
    BY <1>2, <2>2
  <2> QED
    BY <1>6, <2>1, <2>2
<1> QED
    BY <1>1, <1>4, <1>5, <1>7 DEF Dwindle

\* Calls left alone have not grown.
LEMMA StillCalls == ASSUME TypeInv, CallInv, UNCHANGED <<calls, losses>> PROVE Dwindle
<1>1. \A d \in calls : d.answer # "none" => d.waited
    BY DEF CallInv
<1>2. \A c, d \in calls : Rivals(c, d) => c = d
    BY DEF CallInv
<1> QED
    BY <1>1, <1>2 DEF Dwindle, TypeInv

\* A calm step of the coordinator, whatever ends of the calls, is a drift.
LEMMA CalmDrifts ==
    ASSUME Calm, Dwindle, Keeps(receipts'), UNCHANGED <<active, task, page, native>>
    PROVE  Drifts
BY DEF Calm, Drifts

\* Grants that are only added stay.
LEMMA SameGrants == ASSUME grants \subseteq grants' PROVE GrantsStay
BY DEF GrantsStay, Granted, Presented

-----------------------------------------------------------------------------
(***************************************************************************)
(* The task's own helpers                                                  *)
(***************************************************************************)
\* u tells of the pipeline what t does.
SamePipeline(t, u) ==
    /\ u.accepted = t.accepted /\ u.triggered = t.triggered /\ u.parent = t.parent /\ u.ended = t.ended
    /\ u.settling = t.settling /\ u.complete = t.complete /\ u.resultAccepted = t.resultAccepted

\* A task concluded is a sound one, with its pipeline as it was.
LEMMA ConcludedFx ==
    ASSUME NEW t \in CaptureTask, Sane(t), NEW outcome \in Outcome, NEW failure \in FailureStage \cup {None},
           outcome = "CONFIRMED" => t.parent
    PROVE  LET u == Concluded(t, outcome, failure) IN
           /\ u \in CaptureTask /\ Sane(u) /\ SamePipeline(t, u)
           /\ u.outcome # None
           /\ u.failure \in {t.failure, failure}
           /\ t.outcome = None => u.delivery # "over"
<1>1. None \notin Outcome
    BY NoneAssumption
<1>2. CASE t.outcome # None
    BY <1>2 DEF Concluded, SamePipeline
<1>3. CASE t.outcome = None
  <2> DEFINE u == [t EXCEPT !.outcome = outcome, !.failure = failure,
                            !.delivery = IF t.reported THEN "first" ELSE "access"]
  <2>1. u \in CaptureTask
    BY DEF CaptureTask, Delivery
  <2>2. /\ u.outcome = outcome /\ u.failure = failure /\ u.delivery \in {"first", "access"}
        /\ u.parent = t.parent /\ SamePipeline(t, u)
    BY DEF CaptureTask, SamePipeline
  <2>3. Concluded(t, outcome, failure) = u
    BY <1>3 DEF Concluded
  <2> HIDE DEF u
  <2> QED
    BY <1>1, <2>1, <2>2, <2>3 DEF Sane
<1> QED
    BY <1>2, <1>3

\* So is one whose cleanup is queued.
LEMMA QueuedFx ==
    ASSUME NEW t \in CaptureTask, Sane(t), t.outcome # None, NEW close \in BOOLEAN, NEW r
    PROVE  LET u == Queued(r, t, close) IN
           /\ u \in CaptureTask /\ Sane(u) /\ SamePipeline(t, u)
           /\ u.outcome = t.outcome /\ u.failure = t.failure
<1>1. CASE active # r \/ t.cleanupFailed
    BY <1>1 DEF Queued, SamePipeline
<1>2. CASE ~(active # r \/ t.cleanupFailed)
  <2> DEFINE u == [t EXCEPT !.cleanups = Append(@, close), !.chained = TRUE]
  <2>1. t.cleanups \in Seq(BOOLEAN)
    BY DEF CaptureTask
  <2>2. Append(t.cleanups, close) \in Seq(BOOLEAN)
    BY <2>1
  <2>3. u \in CaptureTask
    BY <2>2 DEF CaptureTask
  <2>4. /\ u.outcome = t.outcome /\ u.failure = t.failure /\ u.delivery = t.delivery
        /\ SamePipeline(t, u)
    BY DEF CaptureTask, SamePipeline
  <2>5. Queued(r, t, close) = u
    BY <1>2 DEF Queued
  <2> HIDE DEF u
  <2> QED
    BY <2>3, <2>4, <2>5 DEF Sane, SamePipeline
<1> QED
    BY <1>1, <1>2

\* And one whose settled proof was heard of.
LEMMA SettledTaskFx ==
    ASSUME NEW t \in CaptureTask, Sane(t), NEW r
    PROVE  LET u == Settled(r, t) IN
           /\ u \in CaptureTask /\ Sane(u)
           /\ u.accepted = t.accepted /\ u.triggered = t.triggered /\ u.parent = t.parent /\ u.ended = t.ended
           /\ t.outcome # None => u.outcome # None
           /\ u.failure = "native_save" => t.failure = "native_save"
<1> DEFINE after == [t EXCEPT !.settling = "no"]
<1>1. after \in CaptureTask
    BY DEF CaptureTask
<1>2. /\ after.accepted = t.accepted /\ after.triggered = t.triggered /\ after.parent = t.parent
      /\ after.ended = t.ended /\ after.outcome = t.outcome /\ after.failure = t.failure
      /\ after.delivery = t.delivery /\ after.cleanups = t.cleanups /\ after.settling = "no"
    BY DEF CaptureTask
<1> HIDE DEF after
<1>3. Sane(after)
    BY <1>2 DEF Sane
<1>4. CASE t.settling = "late"
  <2>1. after.outcome # None
    BY <1>2, <1>4 DEF Sane
  <2>2. Settled(r, t) = Queued(r, after, t.resultAccepted = "true" /\ t.complete)
    BY <1>4 DEF Settled, after
  <2> DEFINE close == t.resultAccepted = "true" /\ t.complete
             u == Queued(r, after, close)
  <2>3. close \in BOOLEAN
    BY DEF CaptureTask
  <2> HIDE DEF close
  <2>4. u \in CaptureTask /\ Sane(u) /\ SamePipeline(after, u) /\ u.outcome = after.outcome /\ u.failure = after.failure
    BY <1>1, <1>3, <2>1, <2>3, QueuedFx
  <2>5. Settled(r, t) = u
    BY <2>2 DEF close
  <2> HIDE DEF u
  <2> QED
    BY <1>2, <2>4, <2>5 DEF SamePipeline
<1>5. CASE t.settling = "early" /\ t.parent
  <2>1. Settled(r, t) = Concluded(after, "CONFIRMED", None)
    BY <1>5 DEF Settled, after
  <2> DEFINE u == Concluded(after, "CONFIRMED", None)
  <2>2. "CONFIRMED" \in Outcome
    BY DEF Outcome
  <2>3. None # "native_save"
    BY NoneAssumption DEF FailureStage
  <2>4. u \in CaptureTask /\ Sane(u) /\ SamePipeline(after, u) /\ u.outcome # None /\ u.failure \in {after.failure, None}
    BY <1>1, <1>2, <1>3, <1>5, <2>2, ConcludedFx
  <2> HIDE DEF u
  <2> QED
    BY <1>2, <2>1, <2>3, <2>4 DEF SamePipeline, u
<1>6. CASE t.settling # "late" /\ ~(t.settling = "early" /\ t.parent)
  <2>1. Settled(r, t) = after
    BY <1>6 DEF Settled, after
  <2> QED
    BY <1>1, <1>2, <1>3, <2>1
<1> QED
    BY <1>4, <1>5, <1>6

-----------------------------------------------------------------------------
(***************************************************************************)
(* Every action of the Connector is one of the moves                       *)
(***************************************************************************)
\* What is known of the task of a request.
LEMMA TaskFx ==
    ASSUME TypeInv, TaskInv, NEW r \in Request, task[r] # None
    PROVE  /\ task[r] \in CaptureTask /\ Sane(task[r])
           /\ page[r] \in Page
           /\ ~task[r].triggered /\ page[r] = "over" => task[r].outcome # None
           /\ Closed(task[r]) => task[r].triggered /\ page[r] = "over"
BY DEF TypeInv, TaskInv

\* A page left alone goes on.
LEMMA SamePage == ASSUME TypeInv, NEW r \in Request, UNCHANGED page PROVE PageGoes(r) /\ page'[r] = page[r]
<1>1. page[r] \in Page /\ page' = [page EXCEPT ![r] = page[r]]
    BY DEF TypeInv
<1> QED
    BY <1>1 DEF PageGoes

\* So does one that takes a step the task knows of.
LEMMA NextPage ==
    ASSUME TypeInv, NEW r \in Request, NEW now \in Page, page' = [page EXCEPT ![r] = now],
           \/ now \in {page[r], "over"}
           \/ page[r] = "told" /\ now = "attaching"
           \/ page[r] = "asking" /\ now \in {"checking", "failed"}
    PROVE  PageGoes(r) /\ page'[r] = now
BY DEF TypeInv, PageGoes

\* A task that goes on without leaving the browser.
LEMMA PlainFx ==
    ASSUME TypeInv, NEW r \in Request, task[r] # None, NEW u, Becomes(r, u), Update(r, u),
           PageGoes(r), Keeps(receipts'), UNCHANGED <<captureVars, native>>
    PROVE  Goes(r) /\ task'[r] # None
<1>1. u \in CaptureTask /\ u # None
    BY RuntimeAssumption DEF Becomes
<1>2. task' = [task EXCEPT ![r] = u] /\ task'[r] = u /\ active' = active
    BY DEF Update, TypeInv
<1>3. QueueGoes(r)
    BY <1>1, <1>2 DEF QueueGoes
<1> QED
    BY <1>1, <1>2, <1>3 DEF Goes

\* A task that may give the browser back.
LEMMA ReleaseFx ==
    ASSUME TypeInv, TaskInv, PageInv, NEW r \in Request, task[r] # None, NEW u, Becomes(r, u),
           NEW queue, Keeps(queue), UpdateAndMaybeRelease(r, u, queue),
           PageGoes(r), UNCHANGED <<captureVars, native>>
    PROVE  Goes(r)
<1>1. u \in CaptureTask /\ u # None
    BY RuntimeAssumption DEF Becomes
<1>2. CASE active = r /\ Releasable(u)
  <2> DEFINE v == [u EXCEPT !.released = TRUE]
             w == IF Forgotten(r, u) THEN None ELSE v
  <2>1. v \in CaptureTask
    BY <1>1 DEF CaptureTask
  <2>2. /\ v.accepted = u.accepted /\ v.triggered = u.triggered /\ v.parent = u.parent /\ v.ended = u.ended
        /\ v.outcome = u.outcome /\ v.failure = u.failure /\ v.delivery = u.delivery
        /\ v.cleanups = u.cleanups /\ v.settling = u.settling
    BY <1>1 DEF CaptureTask
  <2>3. task' = [task EXCEPT ![r] = w] /\ active' = None /\ receipts' = Retained(queue, "idle", r)
    BY <1>2 DEF UpdateAndMaybeRelease
  <2> HIDE DEF v
  <2>4. Becomes(r, v)
    BY <2>1, <2>2 DEF Becomes, Sane, Closed
  <2>5. task'[r] = w /\ w \in CaptureTask \cup {None}
    BY <2>1, <2>3 DEF TypeInv
  <2>6. Adds(receipts', "idle", r)
    BY <2>3, RetainedFx DEF Receipts
  <2>7. v.outcome # None
    BY <1>2, <2>2 DEF Releasable
  <2>8. w = None => /\ ~Waiting("access", r) /\ ~Waiting("dispatch", r)
                    /\ \A call \in calls : call.op = "result" => call.request # r
    BY <2>1, RuntimeAssumption DEF Forgotten
  <2>9. page'[r] \notin Writing
    <3>1. CASE u.accepted
      <4>1. Closed(u)
        BY <1>2, <3>1 DEF Releasable, Closed
      <4>2. Closed(task[r]) => page[r] = "over"
        BY TaskFx
      <4>3. page'[r] = "over" \/ page[r] = "over"
        BY <4>1, <4>2 DEF Becomes
      <4> QED
        BY <4>3 DEF PageGoes, TypeInv, Writing
    <3>2. CASE ~u.accepted
      <4>1. page[r] \notin Writing
        BY <3>2 DEF PageInv, Becomes
      <4> QED
        BY <4>1 DEF PageGoes, TypeInv, Writing
    <3> QED
      BY <3>1, <3>2
  <2> HIDE DEF w
  <2>10. w # None => w = v
    BY DEF w
  <2>11. QueueGoes(r)
    BY <1>2, <2>3, <2>5, <2>6, <2>7, <2>8, <2>9, <2>10 DEF QueueGoes
  <2> QED
    BY <2>3, <2>4, <2>5, <2>10, <2>11 DEF Goes
<1>3. CASE ~(active = r /\ Releasable(u))
    BY <1>1, <1>3, PlainFx DEF UpdateAndMaybeRelease
<1> QED
    BY <1>2, <1>3

\* A task that ends without a word of its pipeline's end.
LEMMA ConcludedBecomes ==
    ASSUME TypeInv, TaskInv, NEW r \in Request, task[r] # None, NEW outcome \in Outcome,
           outcome = "CONFIRMED" => task[r].parent
    PROVE  Becomes(r, Concluded(task[r], outcome, None))
<1>1. task[r] \in CaptureTask /\ Sane(task[r])
    BY TaskFx
<1>2. None # "native_save"
    BY NoneAssumption DEF FailureStage
<1> DEFINE u == Concluded(task[r], outcome, None)
<1>3. u \in CaptureTask /\ Sane(u) /\ SamePipeline(task[r], u) /\ u.outcome # None /\ u.failure \in {task[r].failure, None}
    BY <1>1, ConcludedFx
<1> HIDE DEF u
<1>4. Becomes(r, u)
    BY <1>2, <1>3 DEF Becomes, SamePipeline, Closed
<1> QED
    BY <1>4 DEF u

\* What the end of the observation proves rests on the item.
LEMMA ProvenFx ==
    ASSUME NEW t PROVE ProvenSoFar(t) \in Outcome /\ (ProvenSoFar(t) = "CONFIRMED" => t.parent)
BY DEF ProvenSoFar, Outcome

\* A task that only notes that it reported, asked or ran late is the task it was.
LEMMA NotedFx ==
    ASSUME NEW t \in CaptureTask, Sane(t),
           NEW u \in {[t EXCEPT !.reported = TRUE], [t EXCEPT !.expired = TRUE], [t EXCEPT !.asked = TRUE]}
    PROVE  /\ u \in CaptureTask /\ Sane(u) /\ SamePipeline(t, u)
           /\ u.outcome = t.outcome /\ u.failure = t.failure
<1>1. u \in CaptureTask
  <2>1. CASE u = [t EXCEPT !.reported = TRUE]
    BY <2>1 DEF CaptureTask
  <2>2. CASE u = [t EXCEPT !.expired = TRUE]
    BY <2>2 DEF CaptureTask
  <2>3. CASE u = [t EXCEPT !.asked = TRUE]
    BY <2>3 DEF CaptureTask
  <2> QED
    BY <2>1, <2>2, <2>3
<1>2. /\ u.accepted = t.accepted /\ u.triggered = t.triggered /\ u.parent = t.parent /\ u.complete = t.complete
      /\ u.ended = t.ended /\ u.outcome = t.outcome /\ u.failure = t.failure
      /\ u.delivery = t.delivery /\ u.settling = t.settling /\ u.cleanups = t.cleanups
      /\ u.resultAccepted = t.resultAccepted
    BY DEF CaptureTask
<1>3. Sane(u)
    BY <1>2 DEF Sane
<1> QED
    BY <1>1, <1>2, <1>3 DEF SamePipeline

\* The access report and its answer.
LEMMA AccessMoves ==
    ASSUME TypeInv, CallInv, TaskInv, NEW r \in Request
    PROVE  /\ SendAccess(r) => Asks(r)
           /\ SkipAccess(r) => Works(r)
           /\ \A call : HearAccess(call) /\ call.request = r => Works(r)
<1>1. ASSUME SendAccess(r) PROVE Asks(r)
  <2> DEFINE u == [task[r] EXCEPT !.reported = TRUE]
  <2>1. task[r] # None /\ task[r] \in CaptureTask /\ Sane(task[r]) /\ Update(r, u) /\ PageGoes(r) /\ page'[r] = page[r]
    BY <1>1, TaskFx, SamePage DEF SendAccess
  <2>2. Becomes(r, u)
    <3>1. u \in CaptureTask /\ Sane(u) /\ SamePipeline(task[r], u) /\ u.outcome = task[r].outcome /\ u.failure = task[r].failure
      BY <2>1, NotedFx
    <3> HIDE DEF u
    <3> QED
      BY <2>1, <3>1, TaskFx DEF Becomes, Closed, SamePipeline
  <2>3. Goes(r) /\ task'[r] # None
    BY <1>1, <2>1, <2>2, PlainFx, SameQueue DEF SendAccess
  <2> QED
    BY <1>1, <2>3 DEF SendAccess, Asks
<1>2. ASSUME SkipAccess(r) PROVE Works(r)
  <2> DEFINE u == [task[r] EXCEPT !.delivery = "first"]
  <2>1. task[r] # None /\ task[r] \in CaptureTask /\ Sane(task[r]) /\ Update(r, u) /\ PageGoes(r) /\ page'[r] = page[r]
    BY <1>2, TaskFx, SamePage DEF SkipAccess
  <2>2. Becomes(r, u)
    BY <1>2, <2>1, TaskFx DEF SkipAccess, Becomes, Sane, Closed, CaptureTask, Delivery
  <2>3. Goes(r)
    BY <1>2, <2>1, <2>2, PlainFx, SameQueue DEF SkipAccess
  <2> QED
    BY <1>2, <2>3, StillCalls DEF SkipAccess, Works
<1>3. ASSUME NEW call, HearAccess(call), call.request = r PROVE Works(r)
  <2>1. PICK answer \in {"yes", "no", "lost"} : Heard(call, answer)
    BY <1>3 DEF HearAccess
  <2>2. Dwindle /\ call \in calls /\ call.waited /\ call.op = "access"
    BY <1>3, <2>1, HeardFx DEF HearAccess
  <2> DEFINE u == IF task[r].delivery = "access" THEN [task[r] EXCEPT !.delivery = "first"] ELSE task[r]
  <2>3. task[r] # None
    BY <1>3, <2>2 DEF CallInv
  <2>4. task[r] \in CaptureTask /\ Sane(task[r]) /\ Update(r, u) /\ PageGoes(r) /\ page'[r] = page[r]
    BY <1>3, <2>3, TaskFx, SamePage DEF HearAccess
  <2>5. Becomes(r, u)
    <3>1. CASE task[r].delivery = "access"
      BY <2>3, <2>4, <3>1, TaskFx DEF Becomes, Sane, Closed, CaptureTask, Delivery
    <3>2. CASE task[r].delivery # "access"
      BY <2>3, <2>4, <3>2, TaskFx DEF Becomes
    <3> QED
      BY <3>1, <3>2
  <2>6. Goes(r)
    BY <1>3, <2>3, <2>4, <2>5, PlainFx, SameQueue DEF HearAccess
  <2> QED
    BY <2>2, <2>6 DEF Works
<1> QED
    BY <1>1, <1>2, <1>3

\* The ends of a task before its pipeline's.
LEMMA EndMoves ==
    ASSUME TypeInv, CallInv, TaskInv, NEW r \in Request,
           PrepareFails(r) \/ ObservationEnds(r) \/ Navigates(r) \/ TabRemoved(r)
    PROVE  Works(r)
<1>1. active = r /\ task[r] # None
    BY NoneAssumption DEF PrepareFails, ObservationEnds, Navigates, TabRemoved, TypeInv
<1>2. \E outcome \in Outcome : /\ outcome = "CONFIRMED" => task[r].parent
                               /\ Update(r, Concluded(task[r], outcome, None))
  <2>1. CASE PrepareFails(r)
    BY <2>1 DEF PrepareFails, Outcome
  <2>2. CASE ObservationEnds(r)
    BY <2>2, ProvenFx DEF ObservationEnds
  <2>3. CASE Navigates(r)
    BY <2>3 DEF Navigates, Outcome
  <2>4. CASE TabRemoved(r)
    BY <2>4, ProvenFx DEF TabRemoved, Outcome
  <2> QED
    BY <2>1, <2>2, <2>3, <2>4
<1>3. PageGoes(r)
  <2>1. page[r] \in Page /\ "over" \in Page
    BY DEF TypeInv, Page
  <2>2. CASE PrepareFails(r) \/ ObservationEnds(r)
    BY <2>2, SamePage DEF PrepareFails, ObservationEnds
  <2>3. CASE Navigates(r) \/ TabRemoved(r)
    BY <2>1, <2>3, NextPage DEF Navigates, TabRemoved
  <2> QED
    BY <2>2, <2>3
<1>4. UNCHANGED <<captureVars, receipts, calls, losses, native>>
    BY DEF PrepareFails, ObservationEnds, Navigates, TabRemoved
<1>5. Goes(r)
    BY <1>1, <1>2, <1>3, <1>4, ConcludedBecomes, PlainFx, SameQueue
<1> QED
    BY <1>4, <1>5, StillCalls DEF Works

\* What time and a failed cleanup do.
LEMMA OwnMoves ==
    ASSUME TypeInv, CallInv, TaskInv, NEW r \in Request, Expires(r) \/ CleanupFails(r)
    PROVE  Works(r)
<1>1. task[r] # None /\ UNCHANGED <<captureVars, receipts, calls, losses, page, native>>
    BY NoneAssumption DEF Expires, CleanupFails, TypeInv
<1>2. task[r] \in CaptureTask /\ Sane(task[r]) /\ PageGoes(r) /\ page'[r] = page[r]
    BY <1>1, TaskFx, SamePage
<1>3. CASE Expires(r)
  <2> DEFINE u == [task[r] EXCEPT !.expired = TRUE]
  <2>1. Becomes(r, u)
    <3>1. u \in CaptureTask /\ Sane(u) /\ SamePipeline(task[r], u) /\ u.outcome = task[r].outcome /\ u.failure = task[r].failure
      BY <1>2, NotedFx
    <3> HIDE DEF u
    <3> QED
      BY <1>1, <1>2, <3>1, TaskFx DEF Becomes, Closed, SamePipeline
  <2> QED
    BY <1>1, <1>2, <1>3, <2>1, PlainFx, SameQueue, StillCalls DEF Expires, Works
<1>4. CASE CleanupFails(r)
  <2> DEFINE u == [task[r] EXCEPT !.cleanups = <<>>, !.cleanupFailed = TRUE]
  <2>1. Becomes(r, u)
    <3>1. <<>> \in Seq(BOOLEAN)
      OBVIOUS
    <3>2. u \in CaptureTask
      BY <1>2, <3>1 DEF CaptureTask
    <3>3. /\ u.accepted = task[r].accepted /\ u.triggered = task[r].triggered /\ u.parent = task[r].parent
          /\ u.ended = task[r].ended /\ u.outcome = task[r].outcome /\ u.failure = task[r].failure
          /\ u.delivery = task[r].delivery /\ u.settling = task[r].settling /\ u.cleanups = <<>>
      BY <1>2 DEF CaptureTask
    <3> HIDE DEF u
    <3> QED
      BY <1>1, <1>2, <3>2, <3>3, TaskFx DEF Becomes, Sane, Closed
  <2> QED
    BY <1>1, <1>2, <1>4, <2>1, PlainFx, SameQueue, StillCalls DEF CleanupFails, Works
<1> QED
    BY <1>3, <1>4

\* An answer to a result, or its loss.
LEMMA ResultMoves ==
    ASSUME TypeInv, CallInv, TaskInv, NEW call, HearResult(call)
    PROVE  call.request \in Request /\ Works(call.request)
<1> DEFINE r == call.request  t == task[r]
<1>1. PICK answer \in {"yes", "no", "lost"} :
        /\ Heard(call, answer)
        /\ IF answer = "lost" /\ t.delivery = "first"
           THEN Update(r, [t EXCEPT !.delivery = "second"])
           ELSE Update(r, Queued(r, [t EXCEPT !.delivery = "over",
                                              !.resultAccepted = IF answer = "yes" THEN "true" ELSE "false"],
                                 answer = "yes" /\ t.outcome = "CONFIRMED" /\ t.complete))
    BY DEF HearResult
<1>2. Dwindle /\ call \in calls /\ call.op = "result"
    BY <1>1, HeardFx DEF HearResult
<1>3. r \in Request /\ t # None /\ t.outcome # None
    BY <1>2 DEF CallInv
<1>4. UNCHANGED <<captureVars, receipts, page, native>>
    BY DEF HearResult
<1>5. t \in CaptureTask /\ Sane(t) /\ PageGoes(r) /\ page'[r] = page[r]
    BY <1>3, <1>4, TaskFx, SamePage
<1>6. CASE answer = "lost" /\ t.delivery = "first"
  <2> DEFINE u == [t EXCEPT !.delivery = "second"]
  <2>1. Becomes(r, u)
    BY <1>3, <1>5 DEF Becomes, Sane, Closed, CaptureTask, Delivery
  <2> QED
    BY <1>1, <1>2, <1>3, <1>4, <1>5, <1>6, <2>1, PlainFx, SameQueue DEF Works
<1>7. CASE ~(answer = "lost" /\ t.delivery = "first")
  <2> DEFINE v == [t EXCEPT !.delivery = "over", !.resultAccepted = IF answer = "yes" THEN "true" ELSE "false"]
             close == answer = "yes" /\ t.outcome = "CONFIRMED" /\ t.complete
             u == Queued(r, v, close)
  <2>1. v \in CaptureTask /\ Sane(v)
    BY <1>3, <1>5 DEF Sane, CaptureTask, Delivery
  <2>2. /\ v.accepted = t.accepted /\ v.triggered = t.triggered /\ v.parent = t.parent /\ v.ended = t.ended
        /\ v.outcome = t.outcome /\ v.failure = t.failure
    BY <1>5 DEF CaptureTask
  <2>3. close \in BOOLEAN
    BY <1>5 DEF CaptureTask
  <2>4. Update(r, u)
    BY <1>1, <1>7
  <2> HIDE DEF v, close
  <2>5. u \in CaptureTask /\ Sane(u) /\ SamePipeline(v, u) /\ u.outcome = v.outcome /\ u.failure = v.failure
    BY <1>3, <2>1, <2>2, <2>3, QueuedFx
  <2> HIDE DEF u
  <2>6. Becomes(r, u)
    BY <1>3, <2>2, <2>5 DEF Becomes, SamePipeline, Closed
  <2> QED
    BY <1>2, <1>3, <1>4, <1>5, <2>4, <2>6, PlainFx, SameQueue DEF Works
<1> QED
    BY <1>3, <1>6, <1>7

\* A cleanup done; it may let the browser go.
LEMMA CleanupMoves ==
    ASSUME TypeInv, CallInv, TaskInv, PageInv, NEW r \in Request, CleanupDone(r)
    PROVE  Works(r)
<1> DEFINE t == task[r]
           u == [t EXCEPT !.cleanups = Tail(@)]
<1>1. t # None /\ t.cleanups # <<>> /\ UpdateAndMaybeRelease(r, u, receipts) /\ UNCHANGED <<captureVars, calls, losses, native>>
    BY DEF CleanupDone
<1>2. t \in CaptureTask /\ Sane(t) /\ t.outcome # None
    BY <1>1, TaskFx DEF Sane
<1>3. u \in CaptureTask
  <2>1. t.cleanups \in Seq(BOOLEAN)
    BY <1>2 DEF CaptureTask
  <2>2. Tail(t.cleanups) \in Seq(BOOLEAN)
    <3>1. \A s \in Seq(BOOLEAN) : s # <<>> => Tail(s) \in Seq(BOOLEAN)
      OBVIOUS
    <3> QED
      BY <1>1, <2>1, <3>1
  <2> QED
    BY <1>2, <2>2 DEF CaptureTask
<1>4. /\ u.accepted = t.accepted /\ u.triggered = t.triggered /\ u.parent = t.parent /\ u.ended = t.ended
      /\ u.outcome = t.outcome /\ u.failure = t.failure /\ u.delivery = t.delivery /\ u.settling = t.settling
    BY <1>2 DEF CaptureTask
<1>5. PageGoes(r)
  <2>1. "over" \in Page
    BY DEF Page
  <2> QED
    BY <2>1, SamePage, NextPage DEF CleanupDone
<1> HIDE DEF u
<1>6. Becomes(r, u)
    BY <1>1, <1>2, <1>3, <1>4 DEF Becomes, Sane, Closed
<1> QED
    BY <1>1, <1>2, <1>5, <1>6, ReleaseFx, SameQueue, StillCalls DEF Works

\* An answer to a proof, or its loss; the handler that waited goes on.
LEMMA ReceiptMoves ==
    ASSUME TypeInv, CallInv, TaskInv, PageInv, NEW call, HearReceipt(call)
    PROVE  Drifts \/ (call.request \in Request /\ Works(call.request))
<1> DEFINE r == call.request
<1>1. PICK i \in DOMAIN receipts, answer \in {"yes", "no", "lost"} :
         LET awaited == ~receipts[i].beat /\ task[r] # None /\ call.op = "settled"
             queue == IF answer = "yes" THEN RemoveAt(receipts, i) ELSE Kept(i)
         IN /\ Heard(call, answer)
            /\ IF answer # "yes" /\ receipts[i].left > 1
               THEN /\ receipts' = [receipts EXCEPT ![i].left = @ - 1]
                    /\ UNCHANGED <<active, task>>
               ELSE IF awaited
               THEN UpdateAndMaybeRelease(r, Settled(r, task[r]), queue)
               ELSE receipts' = queue /\ UNCHANGED <<active, task>>
    BY DEF HearReceipt
<1> DEFINE queue == IF answer = "yes" THEN RemoveAt(receipts, i) ELSE Kept(i)
<1>2. Dwindle /\ call \in calls /\ call.op \in Receipts
    BY <1>1, HeardFx DEF HearReceipt
<1>3. r \in Request
    BY <1>2 DEF CallInv, Receipts
<1>4. UNCHANGED <<captureVars, page, native>>
    BY DEF HearReceipt
<1>5. Keeps(queue)
    BY RemoveFx, KeptFx
<1>6. CASE Keeps(receipts') /\ UNCHANGED <<active, task>>
    BY <1>2, <1>4, <1>6, UnchangedCalm, CalmDrifts
<1>7. CASE task[r] # None /\ UpdateAndMaybeRelease(r, Settled(r, task[r]), queue)
  <2> DEFINE t == task[r]  u == Settled(r, t)
  <2>1. t \in CaptureTask /\ Sane(t) /\ PageGoes(r) /\ page'[r] = page[r]
    BY <1>3, <1>4, <1>7, TaskFx, SamePage
  <2>2. /\ u \in CaptureTask /\ Sane(u)
        /\ u.accepted = t.accepted /\ u.triggered = t.triggered /\ u.parent = t.parent /\ u.ended = t.ended
        /\ t.outcome # None => u.outcome # None
        /\ u.failure = "native_save" => t.failure = "native_save"
    BY <2>1, SettledTaskFx
  <2> HIDE DEF u
  <2>4. Becomes(r, u)
    BY <1>3, <1>7, <2>1, <2>2, TaskFx DEF Becomes, Closed
  <2>5. Goes(r)
    BY <1>3, <1>4, <1>5, <1>7, <2>1, <2>4, ReleaseFx DEF u
  <2> QED
    BY <1>2, <1>3, <2>5 DEF Works
<1>8. CASE answer # "yes" /\ receipts[i].left > 1
    BY <1>1, <1>6, <1>8, TriedFx
<1>9. CASE ~(answer # "yes" /\ receipts[i].left > 1)
    BY <1>1, <1>5, <1>6, <1>7, <1>9
<1> QED
    BY <1>8, <1>9

\* The pages' messages.  A message nobody heeds only lets the page go on.
LEMMA MessageFx ==
    ASSUME TypeInv, NEW r \in Request, NEW message, NEW next \in Page, Arrives(r, message, next),
           <<message, next>> \in {<<"asking", "failed">>, <<"asking", "checking">>, <<"told", "attaching">>,
                                 <<"done", "over">>, <<"failed", "over">>}
    PROVE  /\ PageGoes(r) /\ page[r] = message /\ page'[r] = next
           /\ Ignored(r) /\ <<message, next>> # <<"asking", "checking">> /\ UNCHANGED <<captureVars, losses, native>>
                 => Unheeded(r)
<1>1. page[r] = message /\ page' = [page EXCEPT ![r] = next]
    BY DEF Arrives
<1>2. PageGoes(r) /\ page'[r] = next
    BY <1>1, NextPage
<1> QED
    BY <1>1, <1>2 DEF Unheeded, Ignored

\* A message past the deadline ends the task instead.
LEMMA OvertakenMoves ==
    ASSUME TypeInv, CallInv, TaskInv, NEW r \in Request, active = r, PageGoes(r), Overtaken(r),
           UNCHANGED <<captureVars, losses, native>>
    PROVE  Works(r)
<1>1. task[r] # None
    BY NoneAssumption DEF TypeInv
<1>2. Update(r, Concluded(task[r], ProvenSoFar(task[r]), None)) /\ UNCHANGED <<receipts, calls>>
    BY DEF Overtaken
<1>3. Becomes(r, Concluded(task[r], ProvenSoFar(task[r]), None))
    BY <1>1, ProvenFx, ConcludedBecomes
<1> QED
    BY <1>1, <1>2, <1>3, PlainFx, SameQueue, StillCalls DEF Works

\* The page asks before it saves.
LEMMA BeforeSaveMoves ==
    ASSUME TypeInv, CallInv, TaskInv, NEW r \in Request, HandleBeforeSave(r)
    PROVE  Works(r) \/ Unheeded(r)
<1>1. UNCHANGED <<captureVars, losses, native>> /\ "failed" \in Page /\ "checking" \in Page
    BY DEF HandleBeforeSave, Page
<1>2. CASE Arrives(r, "asking", "failed") /\ Ignored(r)
    BY <1>1, <1>2, MessageFx
<1>3. CASE active = r /\ Arrives(r, "asking", "failed") /\ Overtaken(r)
    BY <1>1, <1>3, MessageFx, OvertakenMoves
<1>4. CASE /\ active = r /\ Arrives(r, "asking", "checking")
           /\ Update(r, [task[r] EXCEPT !.asked = TRUE])
           /\ UNCHANGED <<receipts, calls>>
  <2> DEFINE u == [task[r] EXCEPT !.asked = TRUE]
  <2>1. PageGoes(r) /\ page'[r] = "checking"
    BY <1>1, <1>4, MessageFx
  <2>2. task[r] # None
    BY <1>4, NoneAssumption DEF TypeInv
  <2>3. task[r] \in CaptureTask /\ Sane(task[r])
    BY <2>2, TaskFx
  <2>4. Becomes(r, u)
    <3>1. u \in CaptureTask /\ Sane(u) /\ SamePipeline(task[r], u) /\ u.outcome = task[r].outcome /\ u.failure = task[r].failure
      BY <2>3, NotedFx
    <3> HIDE DEF u
    <3> QED
      BY <2>1, <3>1 DEF Becomes, Closed, SamePipeline
  <2> QED
    BY <1>1, <1>4, <2>1, <2>2, <2>4, PlainFx, SameQueue, StillCalls DEF Works
<1> QED
    BY <1>2, <1>3, <1>4 DEF HandleBeforeSave, Heeded

\* The page tells that the item is there.
LEMMA ParentSavedMoves ==
    ASSUME TypeInv, CallInv, TaskInv, NEW r \in Request, HandleParentSaved(r)
    PROVE  Works(r) \/ Unheeded(r)
<1> DEFINE t == task[r]
           told == [t EXCEPT !.parent = TRUE]
           u == IF t.complete THEN Concluded(told, "CONFIRMED", None) ELSE told
<1>1. UNCHANGED <<captureVars, losses, native>> /\ "attaching" \in Page /\ Arrives(r, "told", "attaching")
    BY DEF HandleParentSaved, Page
<1>2. PageGoes(r) /\ page[r] = "told" /\ page'[r] = "attaching" /\ (Ignored(r) => Unheeded(r))
    BY <1>1, MessageFx
<1>3. \/ Ignored(r)
      \/ active = r /\ Overtaken(r)
      \/ active = r /\ Update(r, u) /\ UNCHANGED <<receipts, calls>>
    BY DEF HandleParentSaved, Heeded
<1>4. CASE active = r /\ Update(r, u) /\ UNCHANGED <<receipts, calls>>
  <2>1. t # None
    BY <1>4, NoneAssumption DEF TypeInv
  <2>2. t \in CaptureTask /\ Sane(t)
    BY <2>1, TaskFx
  <2>3. /\ told \in CaptureTask /\ told.accepted = t.accepted /\ told.triggered = t.triggered /\ told.parent
        /\ told.ended = t.ended /\ told.outcome = t.outcome /\ told.failure = t.failure
        /\ told.delivery = t.delivery /\ told.settling = t.settling /\ told.cleanups = t.cleanups
    BY <2>2 DEF CaptureTask
  <2> HIDE DEF told
  <2>4. Sane(told)
    BY <2>2, <2>3 DEF Sane
  <2> DEFINE c == Concluded(told, "CONFIRMED", None)
  <2>5. c \in CaptureTask /\ Sane(c) /\ SamePipeline(told, c) /\ c.outcome # None /\ c.failure \in {told.failure, None}
    BY <2>3, <2>4, ConcludedFx DEF Outcome
  <2>6. None # "native_save"
    BY NoneAssumption DEF FailureStage
  <2> HIDE DEF c
  <2>7. Becomes(r, told)
    BY <1>2, <2>3, <2>4 DEF Becomes, Closed
  <2>8. Becomes(r, c)
    BY <1>2, <2>3, <2>5, <2>6 DEF Becomes, Closed, SamePipeline
  <2>9. Becomes(r, u)
    BY <2>7, <2>8 DEF c
  <2> QED
    BY <1>1, <1>2, <1>4, <2>1, <2>9, PlainFx, SameQueue, StillCalls DEF Works
<1> QED
    BY <1>1, <1>2, <1>3, <1>4, OvertakenMoves

\* The page tells that its pipeline is at its end.
LEMMA CompleteMoves ==
    ASSUME TypeInv, CallInv, TaskInv, NEW r \in Request, HandlePipelineComplete(r)
    PROVE  Works(r) \/ Unheeded(r)
<1> DEFINE t == task[r]
           when == IF Live(r) THEN "early" ELSE "late"
           u == [t EXCEPT !.complete = TRUE, !.ended = TRUE, !.settling = when]
<1>1. UNCHANGED <<captureVars, losses, native>> /\ "over" \in Page /\ Arrives(r, "done", "over")
    BY DEF HandlePipelineComplete, Page
<1>2. PageGoes(r) /\ page[r] = "done" /\ page'[r] = "over" /\ (Ignored(r) => Unheeded(r))
    BY <1>1, MessageFx
<1>3. \/ Ignored(r)
      \/ active = r /\ Overtaken(r)
      \/ /\ active = r /\ t.triggered /\ ~t.ended /\ Update(r, u)
         /\ receipts' = Retained(receipts, "settled", r) /\ UNCHANGED calls
    BY DEF HandlePipelineComplete, Heeded, Awaits
<1>4. CASE /\ active = r /\ t.triggered /\ ~t.ended /\ Update(r, u)
           /\ receipts' = Retained(receipts, "settled", r) /\ UNCHANGED calls
  <2>1. t # None
    BY <1>4, NoneAssumption DEF TypeInv
  <2>2. t \in CaptureTask /\ Sane(t)
    BY <2>1, TaskFx
  <2>3. when \in {"early", "late"} /\ (when = "late" => t.outcome # None)
    BY <1>4 DEF Live
  <2> HIDE DEF when
  <2>4. /\ u \in CaptureTask /\ u.accepted = t.accepted /\ u.triggered = t.triggered /\ u.parent = t.parent
        /\ u.ended /\ u.outcome = t.outcome /\ u.failure = t.failure
        /\ u.delivery = t.delivery /\ u.settling = when /\ u.cleanups = t.cleanups
    BY <2>2, <2>3 DEF CaptureTask
  <2> HIDE DEF u
  <2>5. Sane(u)
    BY <2>2, <2>3, <2>4 DEF Sane
  <2>6. Becomes(r, u)
    BY <1>2, <1>4, <2>4, <2>5 DEF Becomes, Closed
  <2>7. u # None /\ task' = [task EXCEPT ![r] = u] /\ task'[r] = u /\ active' = active
    BY <1>4, <2>4, RuntimeAssumption DEF Update, TypeInv
  <2>8. Adds(receipts', "settled", r)
    BY <1>4, SameQueue, RetainedFx DEF Receipts
  <2>9. QueueGoes(r)
    BY <1>2, <1>4, <2>4, <2>7, <2>8 DEF QueueGoes
  <2>10. Goes(r)
    BY <1>1, <1>2, <2>1, <2>4, <2>6, <2>7, <2>9 DEF Goes
  <2> QED
    BY <1>1, <1>4, <2>10, StillCalls DEF Works
<1> QED
    BY <1>1, <1>2, <1>3, <1>4, OvertakenMoves

\* The page tells that it failed, in time or after the outcome.
LEMMA FailedMoves ==
    ASSUME TypeInv, CallInv, TaskInv, PageInv, NEW r \in Request, HandleSaveFailed(r)
    PROVE  Works(r) \/ Unheeded(r)
<1> DEFINE t == task[r]
           v == [t EXCEPT !.ended = TRUE]
           outcome == IF t.parent THEN "CONFIRMED" ELSE IF t.asked THEN "UNCONFIRMED" ELSE "FAILED"
           failure == IF t.parent THEN None ELSE IF t.accepted THEN "native_save"
                      ELSE IF t.asked THEN "missing_confirmation" ELSE "translator"
<1>1. UNCHANGED <<captureVars, losses, native>> /\ "over" \in Page /\ Arrives(r, "failed", "over")
    BY DEF HandleSaveFailed, Page
<1>2. PageGoes(r) /\ page[r] = "failed" /\ page'[r] = "over" /\ (Ignored(r) => Unheeded(r))
    BY <1>1, MessageFx
<1>3. \/ Ignored(r)
      \/ active = r /\ Overtaken(r)
      \/ active = r /\ t.triggered /\ t.outcome # None /\ LateError(r, t) /\ UNCHANGED calls
      \/ active = r /\ t.triggered /\ Update(r, Concluded(v, outcome, failure)) /\ UNCHANGED <<receipts, calls>>
    BY DEF HandleSaveFailed, Heeded, Live
<1>4. ASSUME active = r, t.triggered
      PROVE  /\ t # None /\ t \in CaptureTask /\ Sane(t) /\ v \in CaptureTask /\ Sane(v)
             /\ v.accepted = t.accepted /\ v.triggered = t.triggered /\ v.parent = t.parent
             /\ v.ended /\ v.outcome = t.outcome
  <2>1. t # None
    BY <1>4, NoneAssumption DEF TypeInv
  <2>2. t \in CaptureTask /\ Sane(t)
    BY <2>1, TaskFx
  <2>3. /\ v \in CaptureTask /\ v.accepted = t.accepted /\ v.triggered = t.triggered /\ v.parent = t.parent
        /\ v.ended /\ v.outcome = t.outcome /\ v.failure = t.failure
        /\ v.delivery = t.delivery /\ v.settling = t.settling /\ v.cleanups = t.cleanups
    BY <2>2 DEF CaptureTask
  <2> HIDE DEF v
  <2> QED
    BY <2>1, <2>2, <2>3 DEF Sane
<1> HIDE DEF v
<1>5. CASE active = r /\ t.triggered /\ t.outcome # None /\ LateError(r, t) /\ UNCHANGED calls
  <2> DEFINE u == Queued(r, v, FALSE)
  <2>1. UpdateAndMaybeRelease(r, u, receipts)
    BY <1>5 DEF LateError, v
  <2>2. u \in CaptureTask /\ Sane(u) /\ SamePipeline(v, u) /\ u.outcome = v.outcome
    BY <1>4, <1>5, QueuedFx
  <2> HIDE DEF u
  <2>3. Becomes(r, u)
    BY <1>2, <1>4, <1>5, <2>2 DEF Becomes, SamePipeline, Closed
  <2> QED
    BY <1>1, <1>2, <1>4, <1>5, <2>1, <2>3, ReleaseFx, SameQueue, StillCalls DEF Works
<1>6. CASE active = r /\ t.triggered /\ Update(r, Concluded(v, outcome, failure)) /\ UNCHANGED <<receipts, calls>>
  <2> DEFINE u == Concluded(v, outcome, failure)
  <2>1. outcome \in Outcome /\ failure \in FailureStage \cup {None} /\ (outcome = "CONFIRMED" => v.parent)
    BY <1>4, <1>6 DEF Outcome, FailureStage
  <2> HIDE DEF outcome, failure
  <2>2. u \in CaptureTask /\ Sane(u) /\ SamePipeline(v, u) /\ u.outcome # None
    BY <1>4, <1>6, <2>1, ConcludedFx
  <2>3. Update(r, u)
    BY <1>6
  <2> HIDE DEF u
  <2>4. Becomes(r, u)
    BY <1>2, <1>4, <1>6, <2>2 DEF Becomes, SamePipeline, Closed
  <2> QED
    BY <1>1, <1>2, <1>4, <1>6, <2>3, <2>4, PlainFx, SameQueue, StillCalls DEF Works
<1> QED
    BY <1>1, <1>2, <1>3, <1>5, <1>6, OvertakenMoves

-----------------------------------------------------------------------------
(***************************************************************************)
(* The web process handles a call                                          *)
(***************************************************************************)
ServeOutcome(call) ==
    /\ Drifts \/ Gives(call)
    /\ GrantsStay
    /\ [Next]_captureVars

\* A snapshot is a step of the coordinator.
LEMMA SnapshotStep == ASSUME Snapshot PROVE [Next]_captureVars
BY DEF Next, WorldNext

\* A call refused changes nothing but its answer.
LEMMA RefusedFx ==
    ASSUME CoordInv, TypeInv, CallInv, NEW call \in calls, call.answer = "none",
           Snapshot \/ UNCHANGED captureVars, Answered(call, "no"),
           UNCHANGED <<active, task, receipts, losses, page, native>>
    PROVE  ServeOutcome(call)
<1>1. Calm /\ grants' = grants
  <2>1. TRUE \in BOOLEAN
    OBVIOUS
  <2> QED
    BY <2>1, ExpireCalm, UnchangedCalm DEF CoordInv
<1>2. Dwindle
    BY AnsweredFx
<1>3. Drifts
    BY <1>1, <1>2, SameQueue, CalmDrifts
<1> QED
    BY <1>1, <1>3, SameGrants, SnapshotStep DEF ServeOutcome

\* A call served by a calm step of the coordinator.
LEMMA AcceptedFx ==
    ASSUME TypeInv, CallInv, NEW call \in calls, call.answer = "none", call.op # "claim",
           Calm, GrantsStay, [Next]_captureVars, Answered(call, "yes"),
           call.op = "dispatch" => Escaped(call.request)' /\ Granted(call.request)',
           UNCHANGED <<active, task, receipts, losses, page, native>>
    PROVE  ServeOutcome(call)
<1>1. Dwindle
    BY AnsweredFx
<1> QED
    BY <1>1, SameQueue, CalmDrifts DEF ServeOutcome

\* The web process answers a call of any kind.
LEMMA ServeMoves ==
    ASSUME CoordInv, TypeInv, CallInv, TaskInv, NEW call \in calls, Serve(call)
    PROVE  ServeOutcome(call)
<1>1. call.answer = "none" /\ UNCHANGED <<active, task, receipts, losses, page, native>>
    BY DEF Serve
<1>2. TypeOK /\ DispatchInv
    BY DEF CoordInv
<1> DEFINE r == call.request
<1>3. call.op # "claim" => r \in Request
    BY DEF CallInv
<1>4. ASSUME call.op = "claim", ServeClaim(call) PROVE ServeOutcome(call)
  <2>1. CASE /\ ClaimCommand(TRUE)
             /\ calls' = (calls \ {call}) \cup
                   IF call.waited THEN {[call EXCEPT !.request = attempt.request, !.answer = "yes"]} ELSE {}
    <3>1. [Next]_captureVars
      BY <2>1 DEF Next, ConnectorNext, ConnectorCall
    <3>2. grants' = grants
      BY <2>1, <1>2, ClaimFx
    <3> QED
      BY <1>1, <1>4, <2>1, <3>1, <3>2, SameGrants DEF Gives, ServeOutcome
  <2>2. CASE Snapshot /\ Answered(call, "no")
    BY <1>1, <2>2, RefusedFx
  <2> QED
    BY <1>4, <2>1, <2>2 DEF ServeClaim, Answered
<1>5. ASSUME call.op = "access", ServeAccess(call) PROVE ServeOutcome(call)
  <2>1. ASSUME NEW tab \in Tab, NEW reason \in Passable, RecordAccess(r, tab, reason), Answered(call, "yes")
        PROVE  ServeOutcome(call)
    <3>1. [Next]_captureVars
      BY <1>3, <1>5, <2>1 DEF Next, ConnectorNext, ConnectorCall, AccessReason
    <3> QED
      BY <1>1, <1>2, <1>5, <2>1, <3>1, AccessCalm, SameGrants, AcceptedFx
  <2> QED
    BY <1>1, <1>5, <2>1, RefusedFx DEF ServeAccess
<1>6. ASSUME call.op = "dispatch", ServeDispatch(call) PROVE ServeOutcome(call)
  <2>1. CASE AuthorizeParentDispatch(Presented(r), TRUE) /\ Answered(call, "yes")
    <3>1. [Next]_captureVars
      BY <1>3, <1>6, <2>1, PresentedFx DEF Next, ConnectorNext, ConnectorCall
    <3> QED
      BY <1>1, <1>2, <1>3, <1>6, <2>1, <3>1, DispatchFx, SameGrants, AcceptedFx
  <2> QED
    BY <1>1, <1>6, <2>1, RefusedFx DEF ServeDispatch
<1>7. ASSUME call.op = "result", ServeResult(call) PROVE ServeOutcome(call)
  <2> DEFINE t == task[r]
  <2>1. CASE SubmitConnectorResult(Presented(r), t.outcome, t.failure) /\ Answered(call, "yes")
    <3>1. t # None /\ t.outcome # None
      BY <1>7 DEF CallInv
    <3>2. t \in CaptureTask /\ Sane(t) /\ (t.parent => native[r] = "saved")
      BY <1>3, <1>7, <3>1 DEF TypeInv, TaskInv
    <3>3. t.outcome \in Outcome /\ t.failure \in FailureStage \cup {None}
      BY <3>1, <3>2 DEF CaptureTask
    <3>4. [Next]_captureVars
      BY <1>3, <1>7, <2>1, <3>3, PresentedFx DEF Next, ConnectorNext, ConnectorCall
    <3>5. Dwindle
      BY <1>1, <1>7, <2>1, AnsweredFx
    <3>6. /\ \A s \in Request : Unclaimed(s)' => Unclaimed(s)
          /\ idleReceipts' = idleReceipts /\ escaped' = escaped /\ grants' = grants
          /\ \A s \in Request : verdict'[s] = "CONFIRMED" => verdict[s] = "CONFIRMED" \/ (s = r /\ t.outcome = "CONFIRMED")
      BY <1>2, <1>3, <1>7, <2>1, <3>3, ResultFx
    <3>7. t.outcome = "CONFIRMED" => native[r] = "saved"
      BY <3>2 DEF Sane
    <3>8. Drifts
      BY <1>1, <3>5, <3>6, <3>7, SameQueue DEF Drifts
    <3> QED
      BY <3>4, <3>6, <3>8, SameGrants DEF ServeOutcome
  <2> QED
    BY <1>1, <1>7, <2>1, RefusedFx DEF ServeResult
<1>8. ASSUME call.op = "idle", ServeIdle(call) PROVE ServeOutcome(call)
  <2>1. CASE ReportImportBrowserIdle(r) /\ Answered(call, "yes")
    <3>1. [Next]_captureVars
      BY <1>3, <1>8, <2>1 DEF Next, ConnectorNext, ConnectorCall
    <3>2. Dwindle
      BY <1>1, <1>8, <2>1, AnsweredFx
    <3>3. /\ \A s \in Request : Unclaimed(s)' => Unclaimed(s)
          /\ ToSet(idleReceipts') \subseteq ToSet(idleReceipts) \cup {r}
          /\ escaped' = escaped /\ grants' = grants /\ verdict' = verdict
      BY <1>2, <1>3, <1>8, <2>1, IdleFx
    <3>4. OnItsWay("idle", r)
      BY <1>8 DEF OnItsWay
    <3>5. Drifts
      BY <1>1, <3>2, <3>3, <3>4, SameQueue DEF Drifts
    <3> QED
      BY <3>1, <3>3, <3>5, SameGrants DEF ServeOutcome
  <2>2. CASE UNCHANGED captureVars /\ Answered(call, "yes")
    BY <1>1, <1>8, <2>2, UnchangedCalm, SameGrants, AcceptedFx
  <2> QED
    BY <1>1, <1>8, <2>1, <2>2, RefusedFx DEF ServeIdle
<1>9. ASSUME call.op = "settled", ServeSettled(call) PROVE ServeOutcome(call)
  <2>1. CASE ReportNativeSaveSettled(Presented(r)) /\ Answered(call, "yes")
    <3>1. [Next]_captureVars
      BY <1>3, <1>9, <2>1, PresentedFx DEF Next, ConnectorNext, ConnectorCall
    <3>2. Calm /\ \A s \in Request : Granted(s) => Granted(s)' \/ s = r
      BY <1>2, <1>3, <1>9, <2>1, SettledFx
    <3>3. OnItsWay("settled", r)
      BY <1>9 DEF OnItsWay
    <3>4. GrantsStay
      BY <3>2, <3>3 DEF GrantsStay
    <3> QED
      BY <1>1, <1>9, <2>1, <3>1, <3>2, <3>4, AcceptedFx
  <2>2. CASE UNCHANGED captureVars /\ Answered(call, "yes")
    BY <1>1, <1>9, <2>2, UnchangedCalm, SameGrants, AcceptedFx
  <2> QED
    BY <1>1, <1>9, <2>1, <2>2, RefusedFx DEF ServeSettled
<1>10. call.op \in {"claim", "access", "dispatch", "result", "idle", "settled"}
    BY DEF TypeInv, Call, Receipts
<1> QED
    BY <1>4, <1>5, <1>6, <1>7, <1>8, <1>9, <1>10 DEF Serve

-----------------------------------------------------------------------------

\* Every step of a task and of its page is one of the moves.
LEMMA TaskMoves ==
    ASSUME TypeInv, CallInv, TaskInv, PageInv, NEW r \in Request,
           TaskStep(r) \/ TaskMayEnd(r) \/ PageStep(r) \/ Faulty(r)
    PROVE  Moves /\ UNCHANGED captureVars
<1>1. ASSUME Works(r) \/ Asks(r) PROVE Moves /\ UNCHANGED captureVars
    BY <1>1 DEF Moves, Works, Asks, Goes
<1>2. CASE TaskStep(r)
  <2>1. CASE SendAccess(r) \/ SkipAccess(r)
    BY <1>1, <2>1, AccessMoves
  <2>2. CASE SendResult(r) \/ AskCoordinator(r)
    BY <2>2 DEF Moves, SendResult, AskCoordinator
  <2>3. CASE CleanupDone(r)
    BY <1>1, <2>3, CleanupMoves
  <2>4. CASE HandleBeforeSave(r) \/ HandleParentSaved(r) \/ HandlePipelineComplete(r) \/ HandleSaveFailed(r)
    <3>1. Works(r) \/ Unheeded(r)
      BY <2>4, BeforeSaveMoves, ParentSavedMoves, CompleteMoves, FailedMoves
    <3> QED
      BY <1>1, <3>1 DEF Moves, PageWorks, Unheeded
  <2> QED
    BY <1>2, <2>1, <2>2, <2>3, <2>4 DEF TaskStep
<1>3. CASE TaskMayEnd(r)
  <2>1. CASE PrepareFails(r) \/ ObservationEnds(r)
    BY <1>1, <2>1, EndMoves
  <2>2. CASE Trigger(r)
    BY <2>2 DEF Moves, Trigger
  <2> QED
    BY <1>3, <2>1, <2>2 DEF TaskMayEnd
<1>4. CASE PageStep(r)
    BY <1>4 DEF PageStep, Moves, PageWorks, PageMoves, PageSaves, PageLearns, ZoteroAnswers
<1>5. CASE Faulty(r)
    BY <1>1, <1>5, EndMoves, OwnMoves DEF Faulty
<1> QED
    BY <1>2, <1>3, <1>4, <1>5

\* So is every answer heard.
LEMMA ReplyMoves ==
    ASSUME TypeInv, CallInv, TaskInv, PageInv, NEW call \in calls, Reply(call)
    PROVE  Moves /\ UNCHANGED captureVars
<1>1. CASE HearClaim(call)
  <2>1. PICK answer \in {"yes", "no", "lost"} :
          /\ Heard(call, answer)
          /\ IF answer = "yes"
             THEN active' = call.request /\ task' = [task EXCEPT ![call.request] = NewTask]
             ELSE UNCHANGED <<active, task>>
    BY <1>1 DEF HearClaim
  <2>2. call.op = "claim" /\ UNCHANGED <<captureVars, receipts, page, native>>
    BY <1>1 DEF HearClaim
  <2>3. CASE answer = "yes"
    <3>1. call.answer = "yes"
      BY <2>1, <2>3 DEF Heard
    <3> QED
      BY <2>1, <2>2, <2>3, <3>1 DEF Takes, Moves
  <2>4. CASE answer # "yes"
    <3>1. Dwindle
      BY <2>1, HeardFx
    <3>2. Drifts
      BY <2>1, <2>2, <2>4, <3>1, UnchangedCalm, SameQueue, CalmDrifts
    <3> QED
      BY <2>2, <3>2 DEF Moves
  <2> QED
    BY <2>3, <2>4
<1>2. CASE HearAccess(call)
  <2>1. call.request \in Request
    BY <1>2 DEF HearAccess, CallInv
  <2>2. Works(call.request)
    BY <1>2, <2>1, AccessMoves
  <2> QED
    BY <2>1, <2>2 DEF Moves, Works, Goes
<1>3. CASE HearDispatch(call)
    BY <1>3 DEF Moves, HearDispatch
<1>4. CASE HearResult(call)
    BY <1>4, ResultMoves DEF Moves, Works, Goes
<1>5. CASE HearReceipt(call)
  <2>1. UNCHANGED captureVars
    BY <1>5 DEF HearReceipt
  <2> QED
    BY <1>5, <2>1, ReceiptMoves DEF Moves
<1> QED
    BY <1>1, <1>2, <1>3, <1>4, <1>5 DEF Reply

\* The importer's calls are steps of the coordinator.
LEMMA ImportStep == ASSUME ImportSide PROVE [Next]_captureVars
<1>1. ASSUME NEW owner \in Owner, BrowserTask("import", owner) PROVE [Next]_captureVars
    BY <1>1 DEF Next, BrowserNext, Kind
<1>2. ASSUME ImportOwned, NEW request \in Request, NEW paper \in Paper, StartCapture(request, paper, TRUE)
      PROVE  [Next]_captureVars
    BY <1>2 DEF Next, WorkerNext
<1> QED
    BY <1>1, <1>2 DEF ImportSide, Next, WorkerNext

\* Every step of the whole is one of the moves; the coordinator takes one of its own
\* steps; and only a restart of the web process forgets what it granted.
LEMMA StepMoves ==
    ASSUME CoordInv, TypeInv, CallInv, TaskInv, PageInv, [ConnectorRuntimeNext]_runtimeVars
    PROVE  /\ Moves /\ [Next]_captureVars
           /\ "server" \notin Faults => GrantsStay
<1>1. ASSUME Moves, UNCHANGED captureVars
      PROVE  Moves /\ [Next]_captureVars /\ GrantsStay
  <2>1. grants' = grants
    BY <1>1 DEF captureVars, coordinatorVars
  <2> QED
    BY <1>1, <2>1, SameGrants
<1>2. ASSUME Calm, grants' = grants, [Next]_captureVars, UNCHANGED connectorVars
      PROVE  Moves /\ [Next]_captureVars /\ GrantsStay
  <2>1. UNCHANGED <<active, task, receipts, calls, losses, page, native>>
    BY <1>2 DEF connectorVars
  <2>2. Drifts
    BY <1>2, <2>1, StillCalls, SameQueue, CalmDrifts
  <2> QED
    BY <1>2, <2>2, SameGrants DEF Moves
<1>3. TypeOK /\ DispatchInv
    BY DEF CoordInv
<1>4. CASE ClaimTick
    BY <1>1, <1>4 DEF Moves, ClaimTick
<1>5. CASE HeartbeatTick
  <2>1. Heartbeat(TRUE) /\ UNCHANGED <<active, task, calls, losses, page, native>> /\ TRUE \in BOOLEAN
    BY <1>5 DEF HeartbeatTick
  <2>2. Calm /\ grants' = grants
    BY <1>3, <2>1, ExpireCalm
  <2>3. Keeps(receipts')
    BY <1>5, HeartbeatFx
  <2>4. Drifts
    BY <2>1, <2>2, <2>3, StillCalls, CalmDrifts
  <2>5. [Next]_captureVars
    BY <2>1 DEF Next, ConnectorNext, ConnectorCall
  <2> QED
    BY <2>2, <2>4, <2>5, SameGrants DEF Moves
<1>6. ASSUME NEW call \in calls, Serve(call) \/ Reply(call)
      PROVE  Moves /\ [Next]_captureVars /\ GrantsStay
    BY <1>1, <1>6, ServeMoves, ReplyMoves DEF ServeOutcome, Moves
<1>7. ASSUME NEW i \in DOMAIN receipts, SendReceipt(i)
      PROVE  Moves /\ [Next]_captureVars /\ GrantsStay
    BY <1>1, <1>7 DEF Moves, SendReceipt
<1>8. ASSUME NEW r \in Request, TaskStep(r) \/ TaskMayEnd(r) \/ PageStep(r) \/ Faulty(r)
      PROVE  Moves /\ [Next]_captureVars /\ GrantsStay
    BY <1>1, <1>8, TaskMoves
<1>9. CASE RuntimeRestarts
    BY <1>1, <1>9 DEF Moves, RuntimeRestarts
<1>10. CASE ImportSide /\ UNCHANGED connectorVars
  <2>1. [Next]_captureVars
    BY <1>10, ImportStep
  <2> QED
    BY <1>2, <1>3, <1>10, <2>1, ImportCalm
<1>11. CASE Tick /\ UNCHANGED connectorVars
    BY <1>2, <1>3, <1>11, ClockCalm DEF Next, WorldNext
<1>12. CASE "server" \in Faults /\ Restart /\ UNCHANGED connectorVars
  <2>1. UNCHANGED <<active, task, receipts, calls, losses, page, native>>
    BY <1>12 DEF connectorVars
  <2>2. Drifts
    BY <1>12, <2>1, RestartCalm, StillCalls, SameQueue, CalmDrifts
  <2> QED
    BY <1>12, <2>2 DEF Moves, Next, WorldNext
<1>13. CASE UNCHANGED runtimeVars
  <2>1. UNCHANGED captureVars /\ UNCHANGED connectorVars
    BY <1>13 DEF runtimeVars
  <2> QED
    BY <1>2, <2>1, UnchangedCalm
<1> QED
    BY <1>4, <1>5, <1>6, <1>7, <1>8, <1>9, <1>10, <1>11, <1>12, <1>13 DEF ConnectorRuntimeNext

-----------------------------------------------------------------------------
(***************************************************************************)
(* What the moves do to the calls and the queue                            *)
(***************************************************************************)
\* What is on its way was on its way.
LEMMA DwindleFx ==
    ASSUME Dwindle
    PROVE  /\ \A op, r : OnItsWay(op, r)' => OnItsWay(op, r)
           /\ \A op, r : Waiting(op, r)' => Waiting(op, r)
           /\ \A r : AnsweredYes("claim", r)' => AnsweredYes("claim", r)
           /\ \A r : AnsweredYes("dispatch", r)' => AnsweredYes("dispatch", r) \/ (Escaped(r)' /\ Granted(r)')
<1>1. \A op, r : OnItsWay(op, r)' => OnItsWay(op, r)
    BY DEF Dwindle, OnItsWay
<1>2. \A op, r : Waiting(op, r)' => Waiting(op, r)
    BY DEF Dwindle, Waiting
<1>3. \A r : AnsweredYes("claim", r)' => AnsweredYes("claim", r)
    BY DEF Dwindle, AnsweredYes
<1>4. \A r : AnsweredYes("dispatch", r)' => AnsweredYes("dispatch", r) \/ (Escaped(r)' /\ Granted(r)')
    BY DEF Dwindle, AnsweredYes
<1> QED
    BY <1>1, <1>2, <1>3, <1>4

\* A call sent is the only one that is new.
LEMMA SendsFx ==
    ASSUME NEW op, NEW r, calls' = calls \cup {Sent(op, r)}
    PROVE  /\ \A o, s : OnItsWay(o, s)' => OnItsWay(o, s) \/ (o = op /\ s = r)
           /\ \A o, s : Waiting(o, s)' => Waiting(o, s) \/ (o = op /\ s = r)
           /\ \A o, s : AnsweredYes(o, s)' => AnsweredYes(o, s)
BY DEF Sent, OnItsWay, Waiting, AnsweredYes

\* A command given is a claim answered, of the attempt's request.
LEMMA GivesFx ==
    ASSUME CoordInv, TypeInv, NEW call, Gives(call)
    PROVE  /\ Calm /\ grants' = grants
           /\ attempt.request \in Request /\ Unclaimed(attempt.request) /\ ~Unclaimed(attempt.request)' /\ attempt'.request = attempt.request
           /\ \A d \in calls' : \/ d \in calls /\ d # call
                                \/ /\ call.waited /\ d \in Call /\ d.op = "claim" /\ d.waited
                                   /\ d.request = attempt.request /\ d.answer = "yes"
           /\ \A c, d \in calls' : c = d \/ (c \in calls /\ c # call) \/ (d \in calls /\ d # call)
           /\ call \in calls /\ call.op = "claim"
<1>1. TypeOK /\ DispatchInv /\ call \in calls /\ call.op = "claim" /\ ClaimCommand(TRUE)
    BY DEF CoordInv, Gives
<1>2. /\ Calm /\ grants' = grants
      /\ attempt.request \in Request /\ Unclaimed(attempt.request) /\ ~Unclaimed(attempt.request)' /\ attempt'.request = attempt.request
    BY <1>1, ClaimFx
<1> DEFINE given == [call EXCEPT !.request = attempt.request, !.answer = "yes"]
<1>3. /\ given \in Call /\ given.op = "claim" /\ given.waited = call.waited
      /\ given.request = attempt.request /\ given.answer = "yes"
  <2>1. given \in Call
    BY <1>1, <1>2, TypedCall
  <2>2. call \in Call
    BY <1>1 DEF TypeInv
  <2> QED
    BY <1>1, <2>1, <2>2 DEF Call
<1>4. calls' = (calls \ {call}) \cup IF call.waited THEN {given} ELSE {}
    BY DEF Gives
<1> HIDE DEF given
<1> QED
    BY <1>1, <1>2, <1>3, <1>4

\* A command given changes claims only.
LEMMA GivenCalls ==
    ASSUME CoordInv, TypeInv, NEW call, Gives(call)
    PROVE  /\ \A op, r : op # "claim" /\ OnItsWay(op, r)' => OnItsWay(op, r)
           /\ \A op, r : op # "claim" /\ Waiting(op, r)' => Waiting(op, r)
           /\ \A r : AnsweredYes("dispatch", r)' => AnsweredYes("dispatch", r)
           /\ \A r : AnsweredYes("claim", r)' => AnsweredYes("claim", r) \/ r = attempt.request
<1>1. \A d \in calls' : d \in calls \/ (d.op = "claim" /\ d.request = attempt.request)
    BY GivesFx
<1> QED
    BY <1>1 DEF OnItsWay, Waiting, AnsweredYes

\* A restarted worker waits for nothing.
LEMMA RestartedCalls ==
    ASSUME TypeInv, CallInv, RuntimeRestarts
    PROVE  /\ calls' \subseteq Call
           /\ \A d \in calls' : /\ d.answer = "none" /\ ~d.waited
                                /\ \E c \in calls : c.op = d.op /\ c.request = d.request /\ c.answer = "none"
           /\ \A op, r : OnItsWay(op, r)' => OnItsWay(op, r)
           /\ \A op, r : ~Waiting(op, r)' /\ ~AnsweredYes(op, r)'
<1>1. ASSUME NEW d \in calls'
      PROVE  /\ d \in Call /\ d.answer = "none" /\ ~d.waited
             /\ \E c \in calls : c.op = d.op /\ c.request = d.request /\ c.answer = "none"
  <2>1. PICK c \in calls : c.answer = "none" /\ d = [c EXCEPT !.waited = FALSE]
    BY DEF RuntimeRestarts
  <2>2. c \in Call
    BY DEF TypeInv
  <2> QED
    BY <2>1, <2>2, TypedCall DEF Call
<1>2. \A op, r : OnItsWay(op, r)' => OnItsWay(op, r)
    BY <1>1 DEF OnItsWay
<1>3. \A op, r : ~Waiting(op, r)' /\ ~AnsweredYes(op, r)'
  <2>1. \A op, r : ~Waiting(op, r)'
    BY <1>1 DEF Waiting
  <2>2. \A op, r : ~AnsweredYes(op, r)'
    BY <1>1 DEF AnsweredYes
  <2> QED
    BY <2>1, <2>2
<1> QED
    BY <1>1, <1>2, <1>3

\* What is owed from a queue that has no proof more.
LEMMA KeepsFx ==
    ASSUME Keeps(receipts')
    PROVE  /\ \A kind, r : Owed(kind, r)' => Owed(kind, r)
           /\ Len(receipts') <= Len(receipts) /\ receipts' \in Seq(Receipt)
BY DEF Keeps, Owed

\* What is owed once one proof has come.
LEMMA AddsFx ==
    ASSUME NEW kind, NEW r, Adds(receipts', kind, r)
    PROVE  /\ \A k, s : Owed(k, s)' => Owed(k, s) \/ (k = kind /\ s = r)
           /\ Len(receipts') <= Len(receipts) + 1 /\ receipts' \in Seq(Receipt)
BY DEF Adds, Owed

\* What a step of a task's own comes to.
LEMMA GoesFx ==
    ASSUME TypeInv, NEW r \in Request, Goes(r)
    PROVE  /\ task[r] # None
           /\ task' \in [Request -> CaptureTask \cup {None}] /\ page' \in [Request -> Page]
           /\ \A s \in Request \ {r} : task'[s] = task[s] /\ page'[s] = page[s]
           /\ task'[r] # None => Becomes(r, task'[r])
           /\ \/ page'[r] = page[r] \/ page'[r] = "over"
              \/ page[r] = "told" /\ page'[r] = "attaching"
              \/ page[r] = "asking" /\ page'[r] \in {"checking", "failed"}
           /\ UNCHANGED captureVars /\ native' = native /\ QueueGoes(r)
<1>1. PICK u \in CaptureTask \cup {None} : task' = [task EXCEPT ![r] = u] /\ (u # None => Becomes(r, u))
    BY DEF Goes
<1>2. PICK now \in Page : /\ page' = [page EXCEPT ![r] = now]
                          /\ \/ now \in {page[r], "over"}
                             \/ page[r] = "told" /\ now = "attaching"
                             \/ page[r] = "asking" /\ now \in {"checking", "failed"}
    BY DEF Goes, PageGoes
<1>3. task'[r] = u /\ task' \in [Request -> CaptureTask \cup {None}] /\ \A s \in Request \ {r} : task'[s] = task[s]
    BY <1>1 DEF TypeInv
<1>4. page'[r] = now /\ page' \in [Request -> Page] /\ \A s \in Request \ {r} : page'[s] = page[s]
    BY <1>2 DEF TypeInv
<1> QED
    BY <1>1, <1>2, <1>3, <1>4 DEF Goes

-----------------------------------------------------------------------------
(***************************************************************************)
(* Types                                                                   *)
(***************************************************************************)
\* A proof in the queue is one of the two kinds, about a request.
LEMMA ReceiptType ==
    ASSUME TypeInv, NEW i \in DOMAIN receipts
    PROVE  receipts[i].kind \in Receipts /\ receipts[i].request \in Request
<1>1. receipts[i] \in Receipt
    BY DEF TypeInv
<1> QED
    BY <1>1 DEF Receipt

\* A call sent is a call.
LEMMA SentType ==
    ASSUME NEW op \in {"claim", "access", "dispatch", "result"} \cup Receipts, NEW r \in Request \cup {None}
    PROVE  Sent(op, r) \in Call
BY DEF Sent, Call

\* The task literal is a task.
LEMMA NewTaskType == NewTask \in CaptureTask
<1>1. <<>> \in Seq(BOOLEAN)
    OBVIOUS
<1> QED
    BY <1>1 DEF NewTask, CaptureTask, Delivery

\* What one step of a page, and the trigger and the permission of its task, come to.
LEMMA PageWorksFx ==
    ASSUME TypeInv, NEW r \in Request, PageWorks(r)
    PROVE  /\ page' \in [Request -> Page] /\ native' \in [Request -> {"none", "sent", "saved", "refused"}]
           /\ \A s \in Request \ {r} : page'[s] = page[s] /\ native'[s] = native[s]
           /\ UNCHANGED <<captureVars, active, task, receipts, calls, losses>>
           /\ \/ /\ native'[r] = native[r]
                 /\ <<page[r], page'[r]>> \in
                       {<<"asking", "failed">>, <<"told", "attaching">>, <<"done", "over">>, <<"failed", "over">>,
                        <<"translating", "asking">>, <<"translating", "done">>, <<"translating", "failed">>,
                        <<"permitted", "failed">>, <<"saving", "failed">>,
                        <<"attaching", "done">>, <<"attaching", "failed">>}
              \/ page[r] = "permitted" /\ page'[r] = "saving" /\ native'[r] = "sent"
              \/ page'[r] = page[r] /\ native[r] = "sent" /\ native'[r] \in {"saved", "refused"}
              \/ page[r] = "saving" /\ page'[r] = "told" /\ native[r] = "saved" /\ native'[r] = "saved"
<1> USE DEF TypeInv
<1>1. CASE Unheeded(r)
    BY <1>1 DEF Unheeded, Arrives, Page
<1>2. CASE PageMoves(r)
    BY <1>2 DEF PageMoves, Arrives, Page
<1>3. CASE PageSaves(r)
    BY <1>3 DEF PageSaves, Arrives, Page
<1>4. CASE ZoteroAnswers(r)
    BY <1>4 DEF ZoteroAnswers
<1>5. CASE PageLearns(r)
    BY <1>5 DEF PageLearns, Arrives, Page
<1> QED
    BY <1>1, <1>2, <1>3, <1>4, <1>5 DEF PageWorks

\* The trigger of a save.
LEMMA TriggerFx ==
    ASSUME TypeInv, NEW r \in Request, Trigger(r)
    PROVE  /\ active = r /\ active' = r /\ task[r] # None /\ ~task[r].triggered /\ task[r].outcome = None
           /\ task' \in [Request -> CaptureTask \cup {None}] /\ page' = [page EXCEPT ![r] = "translating"]
           /\ \A s \in Request \ {r} : task'[s] = task[s]
           /\ task'[r] # None /\ task'[r] = [task[r] EXCEPT !.triggered = TRUE]
           /\ UNCHANGED <<captureVars, receipts, calls, losses, native>>
<1>1. active = r /\ task[r].outcome = None /\ ~task[r].triggered /\ Update(r, [task[r] EXCEPT !.triggered = TRUE])
    BY DEF Trigger, Live
<1>2. task[r] # None /\ task[r] \in CaptureTask
    BY <1>1, NoneAssumption DEF TypeInv
<1> DEFINE u == [task[r] EXCEPT !.triggered = TRUE]
<1>3. u \in CaptureTask
    BY <1>2 DEF CaptureTask
<1>4. u # None
    BY <1>3, RuntimeAssumption
<1>5. task' = [task EXCEPT ![r] = u] /\ active' = active
    BY <1>1 DEF Update
<1> HIDE DEF u
<1>6. task' \in [Request -> CaptureTask \cup {None}] /\ task'[r] = u /\ \A s \in Request \ {r} : task'[s] = task[s]
    BY <1>3, <1>5 DEF TypeInv
<1> QED
    BY <1>1, <1>2, <1>4, <1>5, <1>6 DEF Trigger, u

\* The answer to a permission, and what the page makes of it.
LEMMA PermissionFx ==
    ASSUME TypeInv, CallInv, NEW call \in calls, HearDispatch(call)
    PROVE  LET r == call.request t == task[r] IN
           /\ r \in Request /\ t # None /\ t \in CaptureTask /\ call.op = "dispatch" /\ call.waited
           /\ Dwindle /\ \A d \in calls' : ~Rivals(call, d)
           /\ task' \in [Request -> CaptureTask \cup {None}] /\ page' \in [Request -> Page]
           /\ \A s \in Request \ {r} : task'[s] = task[s] /\ page'[s] = page[s]
           /\ \E answer \in {"yes", "no", "lost"} :
                /\ task'[r] = [t EXCEPT !.accepted = (answer = "yes")] /\ task'[r] # None
                /\ answer = "yes" => call.answer = "yes"
                /\ \/ page'[r] = page[r] /\ page[r] # "dispatching"
                   \/ page[r] = "dispatching" /\ page'[r] = "failed"
                   \/ /\ page[r] = "dispatching" /\ page'[r] = "permitted"
                      /\ answer = "yes" /\ active = r /\ t.outcome = None
           /\ UNCHANGED <<captureVars, active, receipts, native>>
<1> DEFINE r == call.request  t == task[r]
<1>1. PICK answer \in {"yes", "no", "lost"} :
          /\ Heard(call, answer)
          /\ Update(r, [t EXCEPT !.accepted = (answer = "yes")])
          /\ \E current \in BOOLEAN :
                page' = IF page[r] # "dispatching" THEN page
                        ELSE IF answer = "yes" /\ current /\ Live(r) /\ ~t.expired
                        THEN [page EXCEPT ![r] = "permitted"]
                        ELSE [page EXCEPT ![r] = "failed"]
    BY DEF HearDispatch
<1>2. call.op = "dispatch" /\ Dwindle /\ call.waited /\ \A d \in calls' : ~Rivals(call, d)
    BY <1>1, HeardFx DEF HearDispatch
<1>3. r \in Request /\ t # None
    BY <1>2 DEF CallInv
<1>4. t \in CaptureTask
    BY <1>3 DEF TypeInv
<1> DEFINE yes == answer = "yes"
           u == [t EXCEPT !.accepted = yes]
<1>5. u \in CaptureTask
  <2>1. yes \in BOOLEAN
    OBVIOUS
  <2> HIDE DEF yes
  <2> QED
    BY <1>4, <2>1 DEF CaptureTask
<1>6. u # None
    BY <1>5, RuntimeAssumption
<1>7. answer = "yes" => call.answer = "yes"
    BY <1>1 DEF Heard
<1>8. task' = [task EXCEPT ![r] = u] /\ active' = active
    BY <1>1 DEF Update
<1> HIDE DEF u
<1>9. task' \in [Request -> CaptureTask \cup {None}] /\ task'[r] = u /\ \A s \in Request \ {r} : task'[s] = task[s]
    BY <1>3, <1>5, <1>8 DEF TypeInv
<1>10. /\ page' \in [Request -> Page] /\ \A s \in Request \ {r} : page'[s] = page[s]
       /\ \/ page'[r] = page[r] /\ page[r] # "dispatching"
          \/ page[r] = "dispatching" /\ page'[r] = "failed"
          \/ page[r] = "dispatching" /\ page'[r] = "permitted" /\ answer = "yes" /\ active = r /\ t.outcome = None
    BY <1>1, <1>3 DEF TypeInv, Page, Live
<1>11. UNCHANGED <<captureVars, active, receipts, native>>
    BY <1>8 DEF HearDispatch
<1> QED
    BY <1>2, <1>3, <1>4, <1>6, <1>7, <1>9, <1>10, <1>11 DEF u

\* In short: the page stays, gives up, or takes a permission that the web process gave.
LEMMA PermissionPage ==
    ASSUME TypeInv, CallInv, NEW call \in calls, HearDispatch(call)
    PROVE  LET s == call.request IN
           /\ \A other \in Request : other # s => task'[other] = task[other] /\ page'[other] = page[other]
           /\ task[s] # None /\ task'[s] # None /\ task'[s].outcome = task[s].outcome
           /\ \/ page'[s] \in {page[s], "failed"}
              \/ page'[s] = "permitted" /\ call.answer = "yes" /\ task[s].outcome = None
<1> DEFINE s == call.request
<1>1. /\ task[s] \in CaptureTask /\ task[s] # None
      /\ \A other \in Request \ {s} : task'[other] = task[other] /\ page'[other] = page[other]
    BY PermissionFx
<1>2. PICK answer \in {"yes", "no", "lost"} :
         /\ task'[s] # None /\ task'[s] = [task[s] EXCEPT !.accepted = (answer = "yes")]
         /\ answer = "yes" => call.answer = "yes"
         /\ \/ page'[s] = page[s] /\ page[s] # "dispatching"
            \/ page[s] = "dispatching" /\ page'[s] = "failed"
            \/ /\ page[s] = "dispatching" /\ page'[s] = "permitted"
               /\ answer = "yes" /\ active = s /\ task[s].outcome = None
    BY PermissionFx
<1>3. task'[s].outcome = task[s].outcome
    BY <1>1, <1>2 DEF CaptureTask
<1>4. \/ page'[s] \in {page[s], "failed"}
      \/ page'[s] = "permitted" /\ call.answer = "yes" /\ task[s].outcome = None
    BY <1>2
<1> QED
    BY <1>1, <1>2, <1>3, <1>4

\* A restart of the worker ends what its tasks have under way, and changes nothing they say.
LEMMA RestartedTasks ==
    ASSUME TypeInv, RuntimeRestarts
    PROVE  /\ task' \in [Request -> CaptureTask \cup {None}]
           /\ \A r \in Request : IF task[r] = None THEN task'[r] = None ELSE
                LET t == task[r] u == task'[r] IN
                /\ u # None /\ u.accepted = t.accepted /\ u.triggered = t.triggered /\ u.parent = t.parent
                /\ u.ended = t.ended /\ u.outcome = t.outcome /\ u.failure = t.failure
                /\ u.delivery = "over" /\ u.cleanups = <<>> /\ u.settling = "no"
<1> DEFINE v(r) == [task[r] EXCEPT !.delivery = "over", !.cleanups = <<>>, !.settling = "no"]
<1>1. ASSUME NEW r \in Request, task[r] # None
      PROVE  LET t == task[r] u == v(r) IN
             /\ u \in CaptureTask /\ u # None
             /\ u.accepted = t.accepted /\ u.triggered = t.triggered /\ u.parent = t.parent
             /\ u.ended = t.ended /\ u.outcome = t.outcome /\ u.failure = t.failure
             /\ u.delivery = "over" /\ u.cleanups = <<>> /\ u.settling = "no"
  <2>1. task[r] \in CaptureTask /\ <<>> \in Seq(BOOLEAN)
    BY <1>1 DEF TypeInv
  <2>2. v(r) \in CaptureTask
    BY <2>1 DEF CaptureTask, Delivery
  <2>3. v(r) # None
    BY <2>2, RuntimeAssumption
  <2> QED
    BY <2>1, <2>2, <2>3 DEF CaptureTask
<1>2. task' = [r \in Request |-> IF task[r] = None THEN None ELSE v(r)]
    BY DEF RuntimeRestarts
<1> HIDE DEF v
<1> QED
    BY <1>1, <1>2

\* Every move keeps the types.
LEMMA TypeStep == ASSUME CoordInv, TypeInv, CallInv, Moves PROVE TypeInv'
<1>1. ASSUME NEW r \in Request, Goes(r) PROVE TypeInv' \/ ~(calls' \subseteq Call /\ losses' \in Nat)
  <2>1. /\ task' \in [Request -> CaptureTask \cup {None}] /\ page' \in [Request -> Page]
        /\ native' = native /\ QueueGoes(r) /\ \A s \in Request \ {r} : task'[s] = task[s]
    BY <1>1, GoesFx
  <2>2. /\ active' \in Request \cup {None} /\ receipts' \in Seq(Receipt)
        /\ active' # None => task'[active'] # None
    BY <2>1, KeepsFx, AddsFx DEF QueueGoes, TypeInv
  <2> QED
    BY <2>1, <2>2 DEF TypeInv
<1>2. ASSUME NEW r \in Request, Works(r) \/ Asks(r) PROVE TypeInv'
  <2>1. CASE Works(r)
    BY <1>1, <2>1 DEF Works, Dwindle
  <2>2. CASE Asks(r)
    BY <1>1, <2>2, SentType DEF Asks, TypeInv
  <2> QED
    BY <1>2, <2>1, <2>2
<1>3. ASSUME NEW r \in Request, SendResult(r) PROVE TypeInv'
    BY <1>3, SentType DEF SendResult, TypeInv
<1>4. ASSUME NEW r \in Request, AskCoordinator(r) PROVE TypeInv'
    BY <1>4, SentType DEF AskCoordinator, TypeInv, Page
<1>5. ASSUME NEW r \in Request, Trigger(r) PROVE TypeInv'
  <2>1. page' \in [Request -> Page]
    BY <1>5, TriggerFx DEF TypeInv, Page
  <2> QED
    BY <1>5, <2>1, TriggerFx DEF TypeInv
<1>6. ASSUME NEW r \in Request, PageWorks(r) PROVE TypeInv'
    BY <1>6, PageWorksFx DEF TypeInv
<1>7. CASE ClaimTick
    BY <1>7, SentType DEF ClaimTick, TypeInv
<1>8. ASSUME NEW i \in DOMAIN receipts, SendReceipt(i) PROVE TypeInv'
  <2>1. Sent(receipts[i].kind, receipts[i].request) \in Call
    BY ReceiptType, SentType
  <2> QED
    BY <1>8, <2>1 DEF SendReceipt, TypeInv
<1>9. ASSUME NEW call \in calls, Takes(call) PROVE TypeInv'
  <2>1. call.request \in Request /\ Dwindle
    BY <1>9, HeardFx DEF Takes, CallInv
  <2>2. NewTask # None
    BY NewTaskType, RuntimeAssumption
  <2>3. task' \in [Request -> CaptureTask \cup {None}] /\ task'[call.request] # None /\ active' = call.request
    BY <1>9, <2>1, <2>2, NewTaskType DEF Takes, TypeInv
  <2> QED
    BY <1>9, <2>1, <2>3 DEF Takes, TypeInv, Dwindle
<1>10. ASSUME NEW call \in calls, Gives(call) PROVE TypeInv'
  <2>1. calls' \subseteq Call
    BY <1>10, GivesFx DEF TypeInv
  <2> QED
    BY <1>10, <2>1 DEF Gives, TypeInv
<1>11. ASSUME NEW call \in calls, HearDispatch(call) PROVE TypeInv'
  <2>1. /\ task' \in [Request -> CaptureTask \cup {None}] /\ page' \in [Request -> Page]
        /\ \A s \in Request \ {call.request} : task'[s] = task[s]
        /\ task'[call.request] # None /\ Dwindle /\ call.request \in Request
        /\ UNCHANGED <<active, receipts, native>>
    BY <1>11, PermissionFx
  <2> QED
    BY <2>1 DEF TypeInv, Dwindle
<1>12. CASE RuntimeRestarts
  <2>1. calls' \subseteq Call
    BY <1>12, CallInv, RestartedCalls
  <2>2. receipts' \in Seq(Receipt)
    <3>1. <<>> \in Seq(Receipt)
      OBVIOUS
    <3> QED
      BY <1>12, <3>1 DEF RuntimeRestarts
  <2>3. page' \in [Request -> Page]
    BY <1>12 DEF RuntimeRestarts, TypeInv, Page
  <2>4. task' \in [Request -> CaptureTask \cup {None}]
    BY <1>12, RestartedTasks
  <2> QED
    BY <1>12, <2>1, <2>2, <2>3, <2>4 DEF RuntimeRestarts, TypeInv
<1>13. CASE Drifts
    BY <1>13, KeepsFx DEF Drifts, Dwindle, TypeInv
<1> QED
    BY <1>2, <1>3, <1>4, <1>5, <1>6, <1>7, <1>8, <1>9, <1>10, <1>11, <1>12, <1>13 DEF Moves

-----------------------------------------------------------------------------
(***************************************************************************)
(* The calls                                                               *)
(***************************************************************************)
\* What the invariant asks of one call.
Lawful(call) ==
    /\ call.answer # "none" => call.waited
    /\ IF call.op = "claim" /\ call.answer # "yes" THEN call.request = None ELSE call.request \in Request
    /\ call.op \in {"access", "dispatch"} /\ call.waited => task[call.request] # None
    /\ call.op = "result" => task[call.request] # None /\ task[call.request].outcome # None

\* What CallInv says, call by call.
LEMMA CallMeaning ==
    CallInv <=> (\A c \in calls : Lawful(c)) /\ (\A c, d \in calls : Rivals(c, d) => c = d)
BY DEF CallInv, Lawful

\* A call that was made lawfully stays so while its task stays, with its outcome.
LEMMA LawfulKept ==
    ASSUME CallInv, Dwindle,
           \A c \in calls : c.op \in {"access", "dispatch"} /\ c.waited => task'[c.request] # None,
           \A c \in calls : c.op = "result" => task'[c.request] # None /\ task'[c.request].outcome # None
    PROVE  CallInv'
<1>1. ASSUME NEW d \in calls' PROVE Lawful(d)'
  <2>1. PICK c \in calls : /\ c.op = d.op /\ c.request = d.request
                           /\ d.waited => c.waited
                           /\ d.answer # "none" => d.waited
                           /\ d.op = "claim" => (d.answer = "yes" <=> c.answer = "yes")
    BY DEF Dwindle
  <2>2. Lawful(c)
    BY CallMeaning
  <2> QED
    BY <2>1, <2>2 DEF Lawful
<1>2. \A c, d \in calls' : Rivals(c, d) => c = d
    BY DEF Dwindle
<1> QED
    BY <1>1, <1>2 DEF CallInv, Lawful

\* A call sent for a task that is there, and of which no rival is out.
LEMMA LawfulSent ==
    ASSUME CallInv, NEW op, NEW r, calls' = calls \cup {Sent(op, r)},
           IF op = "claim" THEN r = None ELSE r \in Request,
           op \in {"access", "dispatch"} => task'[r] # None,
           op = "result" => task'[r] # None /\ task'[r].outcome # None,
           op = "claim" => ~\E call \in calls : call.op = "claim" /\ call.waited,
           op = "dispatch" => ~Waiting("dispatch", r),
           \A c \in calls : c.op \in {"access", "dispatch"} /\ c.waited => task'[c.request] # None,
           \A c \in calls : c.op = "result" => task'[c.request] # None /\ task'[c.request].outcome # None
    PROVE  CallInv'
<1> DEFINE e == Sent(op, r)
<1>1. e.op = op /\ e.request = r /\ e.waited /\ e.answer = "none"
    BY DEF Sent
<1> HIDE DEF e
<1>2. ASSUME NEW d \in calls' PROVE Lawful(d)'
  <2>1. CASE d = e
    BY <1>1, <2>1 DEF Lawful
  <2>2. CASE d \in calls
    BY <2>2, CallMeaning DEF Lawful
  <2> QED
    BY <2>1, <2>2 DEF e
<1>3. ASSUME NEW c \in calls', NEW d \in calls', Rivals(c, d) PROVE c = d
  <2>1. CASE c \in calls /\ d \in calls
    BY <1>3, <2>1 DEF CallInv
  <2>2. CASE c = e \/ d = e
    BY <1>1, <1>3, <2>2 DEF Rivals, Waiting, e
  <2> QED
    BY <2>1, <2>2 DEF e
<1> QED
    BY <1>2, <1>3 DEF CallInv, Lawful

\* A task that goes on keeps what the calls about it need.
LEMMA CallTasks ==
    ASSUME TypeInv, CallInv, NEW r \in Request, Goes(r)
    PROVE  /\ \A c \in calls : c.op \in {"access", "dispatch"} /\ c.waited => task'[c.request] # None
           /\ \A c \in calls : c.op = "result" => task'[c.request] # None /\ task'[c.request].outcome # None
<1>1. /\ task[r] # None /\ \A s \in Request \ {r} : task'[s] = task[s]
      /\ task'[r] # None => Becomes(r, task'[r])
      /\ task'[r] = None => /\ ~Waiting("access", r) /\ ~Waiting("dispatch", r)
                            /\ \A call \in calls : call.op = "result" => call.request # r
    BY GoesFx DEF QueueGoes
<1>2. \A c \in calls : /\ c.op \in {"access", "dispatch"} /\ c.waited => c.request \in Request /\ task[c.request] # None
                       /\ c.op = "result" => /\ c.request \in Request /\ task[c.request] # None
                                             /\ task[c.request].outcome # None
    BY DEF CallInv
<1>3. task'[r] # None /\ task[r].outcome # None => task'[r].outcome # None
    BY <1>1 DEF Becomes
<1>4. \A c \in calls : c.op \in {"access", "dispatch"} /\ c.waited => task'[c.request] # None
    BY <1>1, <1>2 DEF Waiting
<1> QED
    BY <1>1, <1>2, <1>3, <1>4

\* Every move keeps the ties between calls and tasks.
LEMMA CallStep == ASSUME CoordInv, TypeInv, CallInv, TaskInv, PageInv, ClaimInv, Moves PROVE CallInv'
<1>0. /\ \A c \in calls : c.op \in {"access", "dispatch"} /\ c.waited => task[c.request] # None
      /\ \A c \in calls : c.op = "result" => task[c.request] # None /\ task[c.request].outcome # None
      /\ \A c \in calls : c.op # "claim" => c.request \in Request
    BY DEF CallInv
<1>1. ASSUME NEW r \in Request, Works(r) PROVE CallInv'
    BY <1>1, CallTasks, LawfulKept DEF Works
<1>2. ASSUME NEW r \in Request, Asks(r) PROVE CallInv'
    BY <1>2, CallTasks, LawfulSent DEF Asks
<1>3. ASSUME NEW r \in Request, SendResult(r) PROVE CallInv'
  <2>1. task[r].outcome # None
    BY <1>3, TaskFx DEF SendResult, Sane
  <2> QED
    BY <1>0, <1>3, <2>1, LawfulSent DEF SendResult
<1>4. ASSUME NEW r \in Request, AskCoordinator(r) PROVE CallInv'
  <2>1. CASE Live(r) /\ calls' = calls \cup {Sent("dispatch", r)}
    <3>1. task[r] # None
      BY <2>1, NoneAssumption DEF Live, TypeInv
    <3>2. ~Waiting("dispatch", r)
      BY <1>4 DEF AskCoordinator, PageInv
    <3>3. UNCHANGED task
      BY <1>4 DEF AskCoordinator
    <3> QED
      BY <1>0, <2>1, <3>1, <3>2, <3>3, LawfulSent
  <2>2. CASE UNCHANGED calls
    BY <1>0, <1>4, <2>2, StillCalls, LawfulKept DEF AskCoordinator
  <2> QED
    BY <1>4, <2>1, <2>2 DEF AskCoordinator
<1>5. ASSUME NEW r \in Request, Trigger(r) PROVE CallInv'
  <2>1. /\ task'[r] # None /\ \A s \in Request \ {r} : task'[s] = task[s]
        /\ task[r] # None /\ task[r].outcome = None /\ UNCHANGED <<calls, losses>>
    BY <1>5, TriggerFx
  <2> QED
    BY <1>0, <2>1, StillCalls, LawfulKept
<1>6. ASSUME NEW r \in Request, PageWorks(r) PROVE CallInv'
    BY <1>0, <1>6, PageWorksFx, StillCalls, LawfulKept
<1>7. CASE ClaimTick
    BY <1>0, <1>7, LawfulSent DEF ClaimTick
<1>8. ASSUME NEW i \in DOMAIN receipts, SendReceipt(i) PROVE CallInv'
  <2>1. receipts[i].kind \in Receipts /\ receipts[i].request \in Request
    BY ReceiptType
  <2> QED
    BY <1>0, <1>8, <2>1, LawfulSent DEF SendReceipt, Receipts
<1>9. ASSUME NEW call \in calls, Takes(call) PROVE CallInv'
  <2>1. Dwindle /\ call.request \in Request /\ AnsweredYes("claim", call.request)
    BY <1>9, HeardFx DEF Takes, CallInv, AnsweredYes
  <2>2. Untouched(call.request)
    BY <2>1 DEF ClaimInv
  <2>3. \A c \in calls : c.op \in {"access", "dispatch", "result"} => c.request # call.request
    BY <2>2 DEF Untouched, OnItsWay
  <2>4. \A s \in Request \ {call.request} : task'[s] = task[s]
    BY <1>9 DEF Takes, TypeInv
  <2> QED
    BY <1>0, <2>1, <2>3, <2>4, LawfulKept
<1>10. ASSUME NEW call \in calls, Gives(call) PROVE CallInv'
  <2>1. /\ attempt.request \in Request
        /\ \A d \in calls' : \/ d \in calls /\ d # call
                             \/ /\ call.waited /\ d \in Call /\ d.op = "claim" /\ d.waited
                                /\ d.request = attempt.request /\ d.answer = "yes"
        /\ call.op = "claim" /\ UNCHANGED task
    BY <1>10, GivesFx DEF Gives
  <2>2. ASSUME NEW d \in calls' PROVE Lawful(d)'
    BY <2>1, CallMeaning DEF Lawful
  <2>3. ASSUME NEW d \in calls', d \notin calls \/ d = call, NEW c \in calls, c # call
        PROVE  ~Rivals(c, d) /\ ~Rivals(d, c)
    <3>1. d.op = "claim" /\ call.waited
      BY <2>1, <2>3
    <3>2. ~Rivals(call, c)
      BY <2>3 DEF CallInv
    <3> QED
      BY <2>1, <3>1, <3>2 DEF Rivals
  <2>4. ASSUME NEW c \in calls', NEW d \in calls', Rivals(c, d) PROVE c = d
    <3>1. c = d \/ (c \in calls /\ c # call) \/ (d \in calls /\ d # call)
      BY <1>10, GivesFx
    <3> QED
      BY <2>3, <2>4, <3>1 DEF CallInv
  <2> QED
    BY <2>2, <2>4 DEF CallInv, Lawful
<1>11. ASSUME NEW call \in calls, HearDispatch(call) PROVE CallInv'
  <2> DEFINE r == call.request
  <2>1. PICK yes \in BOOLEAN :
            /\ Dwindle /\ task'[r] # None /\ \A s \in Request \ {r} : task'[s] = task[s]
            /\ task[r] \in CaptureTask /\ task'[r] = [task[r] EXCEPT !.accepted = yes]
    BY <1>11, PermissionFx
  <2>2. task'[r].outcome = task[r].outcome
    BY <2>1 DEF CaptureTask
  <2> QED
    BY <1>0, <2>1, <2>2, LawfulKept
<1>12. CASE RuntimeRestarts
  <2>1. \A s \in Request : task[s] # None => task'[s] # None /\ task'[s].outcome = task[s].outcome
    BY <1>12, RestartedTasks
  <2>2. ASSUME NEW d \in calls' PROVE Lawful(d)'
    <3>1. PICK c \in calls : c.op = d.op /\ c.request = d.request /\ c.answer = "none" /\ d.answer = "none" /\ ~d.waited
      BY <1>12, RestartedCalls
    <3> QED
      BY <1>0, <2>1, <3>1, CallMeaning DEF Lawful
  <2>3. \A c, d \in calls' : ~Rivals(c, d)
    BY <1>12, RestartedCalls DEF Rivals
  <2> QED
    BY <2>2, <2>3 DEF CallInv, Lawful
<1>13. CASE Drifts
    BY <1>0, <1>13, LawfulKept DEF Drifts
<1> QED
    BY <1>1, <1>2, <1>3, <1>4, <1>5, <1>6, <1>7, <1>8, <1>9, <1>10, <1>11, <1>12, <1>13 DEF Moves

-----------------------------------------------------------------------------
(***************************************************************************)
(* The task and its page                                                   *)
(***************************************************************************)
\* What the invariants ask of one request's task, and of its page.
TaskLawful(r) == task[r] # None =>
    /\ Sane(task[r])
    /\ task[r].parent => native[r] = "saved"
    /\ ~task[r].triggered => page[r] \in {"off", "over"}
    /\ ~task[r].triggered /\ page[r] = "over" => task[r].outcome # None
    /\ ~task[r].triggered => native[r] = "none"
    /\ Closed(task[r]) => task[r].triggered /\ page[r] = "over"
PageLawful(r) ==
    /\ page[r] \in Coming => native[r] = "none"
    /\ page[r] \in {"told", "attaching"} => native[r] = "saved"
    /\ page[r] = "done" => native[r] # "sent"
    /\ page[r] \in Writing => task[r] # None /\ task[r].accepted

\* The two invariants, request by request.
LEMMA Meanings ==
    /\ TaskInv <=> \A r \in Request : TaskLawful(r)
    /\ PageInv <=> \A r \in Request : PageLawful(r) /\ (Waiting("dispatch", r) => page[r] \in {"dispatching", "over"})
BY DEF TaskInv, TaskLawful, PageInv, PageLawful

\* A request left alone stays as it is.
LEMMA LawfulTask ==
    ASSUME NEW r, TaskLawful(r), task'[r] = task[r], page'[r] = page[r], native'[r] = native[r]
    PROVE  TaskLawful(r)'
BY DEF TaskLawful

\* So does its page.
LEMMA LawfulPage ==
    ASSUME NEW r, PageLawful(r), task'[r] = task[r], page'[r] = page[r], native'[r] = native[r]
    PROVE  PageLawful(r)'
BY DEF PageLawful

\* A request whose task goes on.
LEMMA GoesLawful ==
    ASSUME TypeInv, NEW r \in Request, TaskLawful(r), PageLawful(r), Goes(r)
    PROVE  TaskLawful(r)' /\ PageLawful(r)'
<1>1. /\ task[r] # None /\ native'[r] = native[r] /\ (task'[r] # None => Becomes(r, task'[r])) /\ QueueGoes(r)
      /\ \/ page'[r] = page[r] \/ page'[r] = "over"
         \/ page[r] = "told" /\ page'[r] = "attaching"
         \/ page[r] = "asking" /\ page'[r] \in {"checking", "failed"}
    BY GoesFx
<1>2. TaskLawful(r)'
  <2>1. SUFFICES ASSUME task'[r] # None PROVE TaskLawful(r)'
    BY DEF TaskLawful
  <2> DEFINE t == task[r] u == task'[r]
  <2>2. /\ Sane(u) /\ u.triggered = t.triggered /\ (u.parent => t.parent \/ page[r] = "told")
        /\ t.outcome # None => u.outcome # None
        /\ Closed(u) => Closed(t) \/ (t.triggered /\ page'[r] = "over")
        /\ ~t.triggered /\ page'[r] = "over" => u.outcome # None
    BY <1>1, <2>1 DEF Becomes
  <2> QED
    BY <1>1, <2>2 DEF TaskLawful, PageLawful
<1>3. PageLawful(r)'
  <2>1. page'[r] \in Writing => page[r] \in Writing
    BY <1>1 DEF Writing
  <2>2. task'[r] = None => page'[r] \notin Writing
    BY <1>1 DEF QueueGoes
  <2>3. task'[r] # None => task'[r].accepted = task[r].accepted
    BY <1>1 DEF Becomes
  <2> QED
    BY <1>1, <2>1, <2>2, <2>3 DEF PageLawful, Coming
<1> QED
    BY <1>2, <1>3

\* A page that works by itself.
LEMMA PageLawfulStep ==
    ASSUME TypeInv, NEW r \in Request, TaskLawful(r), PageLawful(r), PageWorks(r)
    PROVE  TaskLawful(r)' /\ PageLawful(r)'
<1>1. UNCHANGED task
    BY PageWorksFx
<1>2. CASE /\ native'[r] = native[r]
           /\ <<page[r], page'[r]>> \in
                       {<<"asking", "failed">>, <<"told", "attaching">>, <<"done", "over">>, <<"failed", "over">>,
                        <<"translating", "asking">>, <<"translating", "done">>, <<"translating", "failed">>,
                        <<"permitted", "failed">>, <<"saving", "failed">>,
                        <<"attaching", "done">>, <<"attaching", "failed">>}
    BY <1>1, <1>2 DEF TaskLawful, PageLawful, Coming, Writing
<1>3. CASE page[r] = "permitted" /\ page'[r] = "saving" /\ native'[r] = "sent"
    BY <1>1, <1>3 DEF TaskLawful, PageLawful, Coming, Writing
<1>4. CASE page'[r] = page[r] /\ native[r] = "sent" /\ native'[r] \in {"saved", "refused"}
    BY <1>1, <1>4 DEF TaskLawful, PageLawful, Coming, Writing
<1>5. CASE page[r] = "saving" /\ page'[r] = "told" /\ native[r] = "saved" /\ native'[r] = "saved"
    BY <1>1, <1>5 DEF TaskLawful, PageLawful, Coming, Writing
<1> QED
    BY <1>2, <1>3, <1>4, <1>5, PageWorksFx

\* Every move keeps a task and its page in step.
LEMMA LawfulStep ==
    ASSUME CoordInv, TypeInv, CallInv, TaskInv, PageInv, ClaimInv, Moves, NEW r \in Request
    PROVE  TaskLawful(r)' /\ PageLawful(r)'
<1>0. TaskLawful(r) /\ PageLawful(r)
    BY Meanings
<1>1. CASE task'[r] = task[r] /\ page'[r] = page[r] /\ native'[r] = native[r]
    BY <1>0, <1>1, LawfulTask, LawfulPage
<1>2. ASSUME NEW s \in Request, Works(s) \/ Asks(s) PROVE TaskLawful(r)' /\ PageLawful(r)'
  <2>1. Goes(s)
    BY <1>2 DEF Works, Asks
  <2>2. CASE s = r
    BY <1>0, <2>1, <2>2, GoesLawful
  <2>3. CASE s # r
    BY <1>1, <2>1, <2>3, GoesFx
  <2> QED
    BY <2>2, <2>3
<1>3. ASSUME NEW s \in Request, SendResult(s) PROVE TaskLawful(r)' /\ PageLawful(r)'
    BY <1>1, <1>3 DEF SendResult
<1>4. ASSUME NEW s \in Request, AskCoordinator(s) PROVE TaskLawful(r)' /\ PageLawful(r)'
  <2>1. UNCHANGED <<task, native>> /\ page[s] = "checking"
    BY <1>4 DEF AskCoordinator
  <2>2. CASE s = r
    <3>1. page'[r] \in {"dispatching", "failed"}
      BY <1>4, <2>2 DEF AskCoordinator, TypeInv
    <3> QED
      BY <1>0, <2>1, <2>2, <3>1 DEF TaskLawful, PageLawful, Coming, Writing
  <2>3. CASE s # r
    <3>1. page'[r] = page[r]
      BY <1>4, <2>3 DEF AskCoordinator, TypeInv
    <3> QED
      BY <1>1, <2>1, <3>1
  <2> QED
    BY <2>2, <2>3
<1>5. ASSUME NEW s \in Request, Trigger(s) PROVE TaskLawful(r)' /\ PageLawful(r)'
  <2>1. /\ task[s] # None /\ ~task[s].triggered /\ task[s].outcome = None /\ page' = [page EXCEPT ![s] = "translating"]
        /\ task'[s] = [task[s] EXCEPT !.triggered = TRUE] /\ native' = native
        /\ \A q \in Request \ {s} : task'[q] = task[q]
    BY <1>5, TriggerFx
  <2>2. CASE s = r
    <3>1. task[r] \in CaptureTask /\ page'[r] = "translating"
      BY <2>1, <2>2 DEF TypeInv
    <3> DEFINE t == task[r] u == task'[r]
    <3>2. /\ u.triggered /\ u.parent = t.parent /\ u.ended = t.ended /\ u.failure = t.failure /\ u.outcome = t.outcome
          /\ u.delivery = t.delivery /\ u.cleanups = t.cleanups /\ u.settling = t.settling
      BY <2>1, <2>2, <3>1 DEF CaptureTask
    <3>3. Sane(t) /\ native[r] = "none" /\ (t.parent => native[r] = "saved") /\ ~Closed(t)
      BY <1>0, <2>1, <2>2 DEF TaskLawful
    <3>4. Sane(u) /\ ~Closed(u)
      BY <3>2, <3>3 DEF Sane, Closed
    <3> HIDE DEF t, u
    <3> QED
      BY <2>1, <3>1, <3>2, <3>3, <3>4 DEF TaskLawful, PageLawful, Coming, Writing, t, u
  <2>3. CASE s # r
    <3>1. page'[r] = page[r]
      BY <2>1, <2>3 DEF TypeInv
    <3> QED
      BY <1>1, <2>1, <2>3, <3>1
  <2> QED
    BY <2>2, <2>3
<1>6. ASSUME NEW s \in Request, PageWorks(s) PROVE TaskLawful(r)' /\ PageLawful(r)'
  <2>1. CASE s = r
    BY <1>0, <1>6, <2>1, PageLawfulStep
  <2>2. CASE s # r
    BY <1>1, <1>6, <2>2, PageWorksFx
  <2> QED
    BY <2>1, <2>2
<1>7. CASE ClaimTick
    BY <1>1, <1>7 DEF ClaimTick
<1>8. ASSUME NEW i \in DOMAIN receipts, SendReceipt(i) PROVE TaskLawful(r)' /\ PageLawful(r)'
    BY <1>1, <1>8 DEF SendReceipt
<1>9. ASSUME NEW call \in calls, Takes(call) PROVE TaskLawful(r)' /\ PageLawful(r)'
  <2> DEFINE s == call.request
  <2>1. s \in Request /\ AnsweredYes("claim", s)
    BY <1>9 DEF Takes, CallInv, AnsweredYes
  <2>2. page[s] = "off" /\ native[s] = "none"
    BY <2>1 DEF ClaimInv, Untouched
  <2>3. task'[s] = NewTask /\ UNCHANGED <<page, native>> /\ \A q \in Request \ {s} : task'[q] = task[q]
    BY <1>9, <2>1 DEF Takes, TypeInv
  <2>4. CASE s = r
    <3>1. Sane(NewTask) /\ ~Closed(NewTask) /\ ~NewTask.parent /\ ~NewTask.triggered
      BY NoneAssumption DEF NewTask, Sane, Closed, Outcome, FailureStage
    <3> QED
      BY <2>2, <2>3, <2>4, <3>1 DEF TaskLawful, PageLawful, Writing
  <2>5. CASE s # r
    BY <1>1, <2>3, <2>5
  <2> QED
    BY <2>4, <2>5
<1>10. ASSUME NEW call \in calls, Gives(call) PROVE TaskLawful(r)' /\ PageLawful(r)'
    BY <1>1, <1>10 DEF Gives
<1>11. ASSUME NEW call \in calls, HearDispatch(call) PROVE TaskLawful(r)' /\ PageLawful(r)'
  <2> DEFINE s == call.request t == task[s] u == task'[s]
  <2>1. PICK answer \in {"yes", "no", "lost"} :
          /\ t # None /\ t \in CaptureTask /\ u = [t EXCEPT !.accepted = (answer = "yes")] /\ u # None
          /\ \/ page'[s] = page[s] /\ page[s] # "dispatching"
             \/ page[s] = "dispatching" /\ page'[s] = "failed"
             \/ page[s] = "dispatching" /\ page'[s] = "permitted" /\ answer = "yes"
          /\ s \in Request /\ native' = native /\ call.op = "dispatch" /\ call.waited
          /\ \A q \in Request \ {s} : task'[q] = task[q] /\ page'[q] = page[q]
    BY <1>11, PermissionFx
  <2>2. CASE s = r
    <3>1. page[r] \in {"dispatching", "over"}
      BY <2>1, <2>2 DEF PageInv, Waiting
    <3>2. /\ u.accepted = (answer = "yes") /\ u.triggered = t.triggered /\ u.parent = t.parent /\ u.ended = t.ended
          /\ u.failure = t.failure /\ u.outcome = t.outcome /\ u.delivery = t.delivery
          /\ u.cleanups = t.cleanups /\ u.settling = t.settling
      BY <2>1 DEF CaptureTask
    <3>3. /\ Sane(t) /\ (t.parent => native[r] = "saved") /\ (~t.triggered => page[r] \in {"off", "over"})
          /\ (~t.triggered /\ page[r] = "over" => t.outcome # None) /\ (~t.triggered => native[r] = "none")
          /\ (Closed(t) => t.triggered /\ page[r] = "over")
      BY <1>0, <2>1, <2>2 DEF TaskLawful
    <3>4. Sane(u) /\ (Closed(u) <=> Closed(t))
      BY <3>2, <3>3 DEF Sane, Closed
    <3>5. TaskLawful(r)'
      <4> HIDE DEF t, u
      <4> QED
        BY <2>1, <2>2, <3>1, <3>2, <3>3, <3>4 DEF TaskLawful, t, u
    <3>6. PageLawful(r)'
      BY <1>0, <2>1, <2>2, <3>1, <3>2 DEF PageLawful, Coming, Writing
    <3> QED
      BY <3>5, <3>6
  <2>3. CASE s # r
    BY <1>1, <2>1, <2>3
  <2> QED
    BY <2>2, <2>3
<1>12. CASE RuntimeRestarts
  <2> DEFINE t == task[r] u == task'[r]
  <2>1. IF t = None THEN u = None ELSE
           /\ u # None /\ u.accepted = t.accepted /\ u.triggered = t.triggered /\ u.parent = t.parent
           /\ u.ended = t.ended /\ u.outcome = t.outcome /\ u.failure = t.failure
           /\ u.delivery = "over" /\ u.cleanups = <<>> /\ u.settling = "no"
    BY <1>12, RestartedTasks
  <2>2. native' = native /\ page'[r] = IF page[r] \in {"asking", "checking", "dispatching"} THEN "failed" ELSE page[r]
    BY <1>12 DEF RuntimeRestarts
  <2>3. t # None /\ Sane(t) => Sane(u) /\ (Closed(u) <=> Closed(t))
    BY <2>1 DEF Sane, Closed
  <2> HIDE DEF t, u
  <2> QED
    BY <1>0, <2>1, <2>2, <2>3 DEF TaskLawful, PageLawful, Coming, Writing, t, u
<1>13. CASE Drifts
    BY <1>1, <1>13 DEF Drifts
<1> QED
    BY <1>2, <1>3, <1>4, <1>5, <1>6, <1>7, <1>8, <1>9, <1>10, <1>11, <1>12, <1>13 DEF Moves

\* A permission is waited for by a page that waits for it, or that is over.
AskLawful(r) == Waiting("dispatch", r) => page[r] \in {"dispatching", "over"}

\* Every move keeps the permission asked for by the page that asks.
LEMMA AskStep ==
    ASSUME CoordInv, TypeInv, CallInv, TaskInv, PageInv, ClaimInv, Moves, NEW r \in Request
    PROVE  AskLawful(r)'
<1>0. Waiting("dispatch", r) => page[r] \in {"dispatching", "over"}
    BY DEF PageInv
<1>1. ASSUME Waiting("dispatch", r)' => Waiting("dispatch", r),
             page[r] \in {"dispatching", "over"} => page'[r] = page[r] \/ page'[r] = "over"
      PROVE  AskLawful(r)'
    BY <1>0, <1>1 DEF AskLawful
<1>2. ASSUME NEW s \in Request, Works(s) \/ Asks(s) PROVE AskLawful(r)'
  <2>1. page[r] \in {"dispatching", "over"} => page'[r] = page[r] \/ page'[r] = "over"
    BY <1>2, GoesFx DEF Works, Asks
  <2>2. Waiting("dispatch", r)' => Waiting("dispatch", r)
    BY <1>2, DwindleFx, SendsFx DEF Works, Asks
  <2> QED
    BY <1>1, <2>1, <2>2
<1>3. ASSUME NEW s \in Request, SendResult(s) PROVE AskLawful(r)'
  <2>1. Waiting("dispatch", r)' => Waiting("dispatch", r)
    BY <1>3, SendsFx DEF SendResult
  <2> QED
    BY <1>1, <1>3, <2>1 DEF SendResult
<1>4. ASSUME NEW s \in Request, AskCoordinator(s) PROVE AskLawful(r)'
  <2>1. CASE calls' = calls \cup {Sent("dispatch", s)} /\ page' = [page EXCEPT ![s] = "dispatching"]
    <3>1. Waiting("dispatch", r)' => Waiting("dispatch", r) \/ r = s
      BY <2>1, SendsFx
    <3>2. page'[r] = IF r = s THEN "dispatching" ELSE page[r]
      BY <2>1 DEF TypeInv
    <3> QED
      BY <1>0, <3>1, <3>2 DEF AskLawful
  <2>2. CASE UNCHANGED calls /\ page' = [page EXCEPT ![s] = "failed"] /\ page[s] = "checking"
    <3>1. page'[r] = IF r = s THEN "failed" ELSE page[r]
      BY <2>2 DEF TypeInv
    <3> QED
      BY <1>0, <2>2, <3>1 DEF AskLawful, Waiting
  <2> QED
    BY <1>4, <2>1, <2>2 DEF AskCoordinator
<1>5. ASSUME NEW s \in Request, Trigger(s) PROVE AskLawful(r)'
  <2>1. UNCHANGED calls /\ page'[r] = IF r = s THEN "translating" ELSE page[r]
    BY <1>5, TriggerFx DEF TypeInv
  <2>2. r = s => ~Waiting("dispatch", r)
    BY <1>0, <1>5, TriggerFx DEF TaskInv
  <2> QED
    BY <1>0, <2>1, <2>2 DEF AskLawful, Waiting
<1>6. ASSUME NEW s \in Request, PageWorks(s) PROVE AskLawful(r)'
  <2>1. Waiting("dispatch", r)' => Waiting("dispatch", r)
    BY <1>6, PageWorksFx DEF Waiting
  <2>2. page[r] \in {"dispatching", "over"} => page'[r] = page[r] \/ page'[r] = "over"
    BY <1>6, PageWorksFx
  <2> QED
    BY <1>1, <2>1, <2>2
<1>7. CASE ClaimTick
    BY <1>1, <1>7, SendsFx DEF ClaimTick
<1>8. ASSUME NEW i \in DOMAIN receipts, SendReceipt(i) PROVE AskLawful(r)'
  <2>1. Waiting("dispatch", r)' => Waiting("dispatch", r)
    BY <1>8, SendsFx, ReceiptType DEF SendReceipt, Receipts
  <2> QED
    BY <1>1, <1>8, <2>1 DEF SendReceipt
<1>9. ASSUME NEW call \in calls, Takes(call) PROVE AskLawful(r)'
  <2>1. Waiting("dispatch", r)' => Waiting("dispatch", r)
    BY <1>9, HeardFx, DwindleFx DEF Takes
  <2> QED
    BY <1>1, <1>9, <2>1 DEF Takes
<1>10. ASSUME NEW call \in calls, Gives(call) PROVE AskLawful(r)'
  <2>1. Waiting("dispatch", r)' => Waiting("dispatch", r)
    BY <1>10, GivenCalls
  <2> QED
    BY <1>1, <1>10, <2>1 DEF Gives
<1>11. ASSUME NEW call \in calls, HearDispatch(call) PROVE AskLawful(r)'
  <2> DEFINE s == call.request
  <2>1. /\ s \in Request /\ call.op = "dispatch" /\ call.waited /\ Dwindle /\ \A d \in calls' : ~Rivals(call, d)
        /\ \A q \in Request \ {s} : page'[q] = page[q]
    BY <1>11, PermissionFx
  <2>2. ~Waiting("dispatch", s)'
    BY <2>1 DEF Waiting, Rivals
  <2>3. Waiting("dispatch", r)' => Waiting("dispatch", r)
    BY <2>1, DwindleFx
  <2> QED
    BY <1>0, <2>1, <2>2, <2>3 DEF AskLawful
<1>12. CASE RuntimeRestarts
    BY <1>12, RestartedCalls DEF AskLawful
<1>13. CASE Drifts
    BY <1>1, <1>13, DwindleFx DEF Drifts
<1> QED
    BY <1>2, <1>3, <1>4, <1>5, <1>6, <1>7, <1>8, <1>9, <1>10, <1>11, <1>12, <1>13 DEF Moves

\* So TaskInv and PageInv go on.
LEMMA TaskPageStep ==
    ASSUME CoordInv, TypeInv, CallInv, TaskInv, PageInv, ClaimInv, Moves
    PROVE  TaskInv' /\ PageInv'
<1>1. \A r \in Request : TaskLawful(r)' /\ PageLawful(r)' /\ AskLawful(r)'
    BY LawfulStep, AskStep
<1> QED
    BY <1>1 DEF TaskLawful, PageLawful, AskLawful, TaskInv, PageInv
-----------------------------------------------------------------------------
(***************************************************************************)
(* A capture is claimed once, and comes new to its task                    *)
(***************************************************************************)
\* A call or a move that is about a request leaves every untouched one as it is.
LEMMA UntouchedKept ==
    ASSUME TypeInv, NEW r \in Request, Untouched(r),
           task'[r] = task[r], page'[r] = page[r], native'[r] = native[r],
           \A op \in {"access", "dispatch", "result"} \cup Receipts : OnItsWay(op, r)' => OnItsWay(op, r),
           \A kind \in Receipts : Owed(kind, r)' => Owed(kind, r),
           r \in ToSet(idleReceipts)' => r \in ToSet(idleReceipts)
    PROVE  Untouched(r)'
BY DEF Untouched

\* What a step does not add stays unclaimed, and a claim that is answered was.
LEMMA ClaimKept ==
    ASSUME ClaimInv, NEW r \in Request, Unclaimed(r)' => Unclaimed(r),
           AnsweredYes("claim", r)' => AnsweredYes("claim", r),
           Untouched(r) => Untouched(r)'
    PROVE  /\ (Unclaimed(r) \/ AnsweredYes("claim", r))' => Untouched(r)'
           /\ ~(Unclaimed(r) /\ AnsweredYes("claim", r))'
BY DEF ClaimInv

\* An empty queue owes nothing.
LEMMA NothingOwed == ASSUME receipts' = <<>> PROVE \A kind, r : ~Owed(kind, r)'
<1>1. DOMAIN receipts' = {}
    OBVIOUS
<1> QED
    BY <1>1 DEF Owed

\* What ClaimInv says of one request.
ClaimLawful(r) ==
    /\ Unclaimed(r) \/ AnsweredYes("claim", r) => Untouched(r)
    /\ ~(Unclaimed(r) /\ AnsweredYes("claim", r))

\* Every move leaves the unclaimed captures untouched.
LEMMA ClaimStep ==
    ASSUME CoordInv, TypeInv, CallInv, TaskInv, PageInv, ClaimInv, Moves, NEW r \in Request
    PROVE  ClaimLawful(r)'
<1> USE DEF Receipts
<1>0. SUFFICES ASSUME ClaimLawful(r) PROVE ClaimLawful(r)'
    BY DEF ClaimInv, ClaimLawful
<1>a. ASSUME Unclaimed(r)' => Unclaimed(r), AnsweredYes("claim", r)' => AnsweredYes("claim", r),
             Untouched(r) => Untouched(r)'
      PROVE  ClaimLawful(r)'
    BY <1>0, <1>a DEF ClaimLawful
<1>b. UNCHANGED captureVars => (Unclaimed(r)' => Unclaimed(r)) /\ (r \in ToSet(idleReceipts)' => r \in ToSet(idleReceipts))
    BY UnchangedCalm DEF Calm
<1>2. ASSUME NEW s \in Request, Works(s) \/ Asks(s) PROVE ClaimLawful(r)'
  <2>1. /\ task[s] # None /\ UNCHANGED captureVars /\ native' = native /\ QueueGoes(s)
        /\ (r # s => task'[r] = task[r] /\ page'[r] = page[r])
    BY <1>2, GoesFx DEF Works, Asks
  <2>2. /\ \A op : OnItsWay(op, r)' => OnItsWay(op, r) \/ r = s
        /\ AnsweredYes("claim", r)' => AnsweredYes("claim", r)
    BY <1>2, DwindleFx, SendsFx DEF Works, Asks
  <2>3. \A kind : Owed(kind, r)' => Owed(kind, r) \/ r = s
    BY <2>1, KeepsFx, AddsFx DEF QueueGoes
  <2>4. Untouched(r) => Untouched(r)'
    BY <1>b, <2>1, <2>2, <2>3 DEF Untouched
  <2> QED
    BY <1>a, <1>b, <2>1, <2>2, <2>4
<1>3. ASSUME NEW s \in Request, SendResult(s) PROVE ClaimLawful(r)'
  <2>1. /\ \A op : OnItsWay(op, r)' => OnItsWay(op, r) \/ r = s
        /\ AnsweredYes("claim", r)' => AnsweredYes("claim", r)
    BY <1>3, SendsFx DEF SendResult
  <2>2. Untouched(r) => Untouched(r)'
    BY <1>3, <2>1, <1>b DEF SendResult, Untouched, Owed
  <2> QED
    BY <1>3, <1>a, <1>b, <2>1, <2>2 DEF SendResult
<1>4. ASSUME NEW s \in Request, AskCoordinator(s) PROVE ClaimLawful(r)'
  <2>1. /\ \A op : OnItsWay(op, r)' => OnItsWay(op, r) \/ r = s
        /\ AnsweredYes("claim", r)' => AnsweredYes("claim", r)
    BY <1>4, SendsFx DEF AskCoordinator, OnItsWay, AnsweredYes
  <2>2. page[s] = "checking" /\ (r # s => page'[r] = page[r])
    BY <1>4 DEF AskCoordinator, TypeInv
  <2>3. Untouched(r) => Untouched(r)'
    BY <1>4, <2>1, <2>2, <1>b DEF AskCoordinator, Untouched, Owed
  <2> QED
    BY <1>4, <1>a, <1>b, <2>1, <2>3 DEF AskCoordinator
<1>5. ASSUME NEW s \in Request, Trigger(s) PROVE ClaimLawful(r)'
  <2>1. /\ task[s] # None /\ UNCHANGED <<captureVars, receipts, calls, native>>
        /\ (r # s => task'[r] = task[r] /\ page'[r] = page[r])
    BY <1>5, TriggerFx DEF TypeInv
  <2>2. Untouched(r) => Untouched(r)'
    BY <2>1, <1>b DEF Untouched, Owed, OnItsWay
  <2> QED
    BY <1>a, <1>b, <2>1, <2>2 DEF AnsweredYes
<1>6. ASSUME NEW s \in Request, PageWorks(s) PROVE ClaimLawful(r)'
  <2>1. /\ UNCHANGED <<captureVars, active, task, receipts, calls, losses>>
        /\ (r # s => page'[r] = page[r] /\ native'[r] = native[r])
    BY <1>6, PageWorksFx
  <2>2. page[s] # "off" \/ native[s] # "none"
    BY <1>6, PageWorksFx
  <2>3. Untouched(r) => Untouched(r)'
    BY <2>1, <2>2, <1>b DEF Untouched, Owed, OnItsWay
  <2> QED
    BY <1>a, <1>b, <2>1, <2>3 DEF AnsweredYes
<1>7. CASE ClaimTick
  <2>1. /\ \A op \in {"access", "dispatch", "result"} \cup Receipts : OnItsWay(op, r)' => OnItsWay(op, r)
        /\ AnsweredYes("claim", r)' => AnsweredYes("claim", r)
    BY <1>7, SendsFx DEF ClaimTick
  <2>2. Untouched(r) => Untouched(r)'
    BY <1>7, <2>1, <1>b DEF ClaimTick, Untouched, Owed
  <2> QED
    BY <1>7, <1>a, <1>b, <2>1, <2>2 DEF ClaimTick
<1>8. ASSUME NEW i \in DOMAIN receipts, SendReceipt(i) PROVE ClaimLawful(r)'
  <2> DEFINE kind == receipts[i].kind s == receipts[i].request
  <2>1. /\ \A op : OnItsWay(op, r)' => OnItsWay(op, r) \/ r = s
        /\ AnsweredYes("claim", r)' => AnsweredYes("claim", r)
    BY <1>8, SendsFx DEF SendReceipt
  <2>2. kind \in Receipts /\ Owed(kind, s)
    BY ReceiptType DEF Owed
  <2>3. Untouched(r) => Untouched(r)'
    BY <1>8, <2>1, <2>2, <1>b DEF SendReceipt, Untouched, Owed
  <2> QED
    BY <1>8, <1>a, <1>b, <2>1, <2>3 DEF SendReceipt
<1>9. ASSUME NEW call \in calls, Takes(call) PROVE ClaimLawful(r)'
  <2> DEFINE s == call.request
  <2>1. /\ s \in Request /\ Dwindle /\ \A d \in calls' : ~Rivals(call, d)
        /\ call.op = "claim" /\ call.waited /\ call.answer = "yes"
    BY <1>9, HeardFx DEF Takes, CallInv
  <2>2. AnsweredYes("claim", s) /\ ~Unclaimed(s)
    BY <2>1 DEF ClaimInv, AnsweredYes
  <2>3. ~AnsweredYes("claim", s)'
    BY <2>1 DEF AnsweredYes, Rivals, Dwindle
  <2>4. UNCHANGED <<captureVars, receipts, page, native>> /\ (r # s => task'[r] = task[r])
    BY <1>9 DEF Takes, TypeInv
  <2>5. Untouched(r) /\ r # s => Untouched(r)'
    BY <2>1, <2>4, <1>b, DwindleFx DEF Untouched, Owed
  <2>6. CASE r = s
    BY <2>2, <2>3, <2>4, <2>6, <1>b DEF ClaimLawful
  <2>7. CASE r # s
    BY <2>1, <2>4, <2>5, <2>7, <1>a, <1>b, DwindleFx
  <2> QED
    BY <2>6, <2>7
<1>10. ASSUME NEW call \in calls, Gives(call) PROVE ClaimLawful(r)'
  <2> DEFINE s == attempt.request
  <2>1. Calm /\ s \in Request /\ Unclaimed(s) /\ ~Unclaimed(s)' /\ s' = s
    BY <1>10, GivesFx
  <2>2. /\ \A op : op # "claim" /\ OnItsWay(op, r)' => OnItsWay(op, r)
        /\ AnsweredYes("claim", r)' => AnsweredYes("claim", r) \/ r = s
    BY <1>10, GivenCalls
  <2>3. Untouched(r) => Untouched(r)'
    BY <1>10, <2>1, <2>2 DEF Gives, Calm, Untouched, Owed
  <2>4. CASE r = s
    BY <1>0, <2>1, <2>3, <2>4 DEF ClaimLawful
  <2>5. CASE r # s
    BY <1>a, <2>1, <2>2, <2>3, <2>5 DEF Calm
  <2> QED
    BY <2>4, <2>5
<1>11. ASSUME NEW call \in calls, HearDispatch(call) PROVE ClaimLawful(r)'
  <2> DEFINE s == call.request
  <2>1. /\ s \in Request /\ task[s] # None /\ Dwindle /\ UNCHANGED <<captureVars, receipts, native>>
        /\ (r # s => task'[r] = task[r] /\ page'[r] = page[r])
    BY <1>11, PermissionFx
  <2>2. Untouched(r) => Untouched(r)'
    BY <2>1, <1>b, DwindleFx DEF Untouched, Owed
  <2> QED
    BY <1>a, <1>b, <2>1, <2>2, DwindleFx
<1>12. CASE RuntimeRestarts
  <2>0. \A kind : ~Owed(kind, r)'
    BY <1>12, NothingOwed DEF RuntimeRestarts
  <2>1. /\ UNCHANGED <<captureVars, native>> /\ ~AnsweredYes("claim", r)' /\ \A op : OnItsWay(op, r)' => OnItsWay(op, r)
        /\ \A kind : ~Owed(kind, r)'
    BY <1>12, <2>0, RestartedCalls DEF RuntimeRestarts
  <2>2. (task[r] = None => task'[r] = None) /\ (page[r] = "off" => page'[r] = "off")
    BY <1>12 DEF RuntimeRestarts
  <2>3. Untouched(r) => Untouched(r)'
    BY <2>1, <2>2, <1>b DEF Untouched
  <2> QED
    BY <1>a, <1>b, <2>1, <2>3
<1>13. CASE Drifts
  <2>1. /\ (Unclaimed(r)' => Unclaimed(r)) /\ Dwindle /\ Keeps(receipts')
        /\ (r \in ToSet(idleReceipts)' => r \in ToSet(idleReceipts) \/ OnItsWay("idle", r))
    BY <1>13 DEF Drifts
  <2>2. Untouched(r) => Untouched(r)'
    BY <1>13, <2>1, DwindleFx, KeepsFx DEF Drifts, Untouched
  <2> QED
    BY <1>a, <2>1, <2>2, DwindleFx
<1> QED
    BY <1>2, <1>3, <1>4, <1>5, <1>6, <1>7, <1>8, <1>9, <1>10, <1>11, <1>12, <1>13 DEF Moves

-----------------------------------------------------------------------------
(***************************************************************************)
(* Nothing is written without a permission, nor confirmed without the item *)
(***************************************************************************)
TruthLawful(r) ==
    /\ page[r] = "permitted" \/ native[r] # "none" \/ AnsweredYes("dispatch", r) => Escaped(r)
    /\ verdict[r] = "CONFIRMED" => native[r] = "saved"

\* What a step may do to a request without making its report false.
LEMMA TruthKept ==
    ASSUME NEW r \in Request, TruthLawful(r),
           escaped \subseteq escaped',
           verdict'[r] = "CONFIRMED" => verdict[r] = "CONFIRMED" \/ native[r] = "saved",
           \/ native'[r] = native[r]
           \/ native[r] # "saved" /\ (native[r] # "none" \/ page[r] = "permitted"),
           page'[r] = "permitted" => page[r] = "permitted" \/ AnsweredYes("dispatch", r),
           AnsweredYes("dispatch", r)' => AnsweredYes("dispatch", r) \/ Escaped(r)'
    PROVE  TruthLawful(r)'
<1>1. Escaped(r) => Escaped(r)'
    BY DEF Escaped
<1> QED
    BY <1>1 DEF TruthLawful

\* The Connector's own steps leave the coordinator as it is.
LEMMA CoordinatorKept ==
    ASSUME UNCHANGED captureVars
    PROVE  escaped' = escaped /\ verdict' = verdict /\ grants' = grants /\ ToSet(idleReceipts)' = ToSet(idleReceipts)
BY DEF captureVars, coordinatorVars

\* No move makes a report false.
LEMMA TruthStep ==
    ASSUME CoordInv, TypeInv, CallInv, TaskInv, PageInv, TruthInv, Moves, NEW r \in Request
    PROVE  TruthLawful(r)'
<1>0. TruthLawful(r)
    BY DEF TruthInv, TruthLawful
<1>a. ASSUME UNCHANGED captureVars,
             \/ native'[r] = native[r]
             \/ native[r] # "saved" /\ (native[r] # "none" \/ page[r] = "permitted"),
             page'[r] = "permitted" => page[r] = "permitted" \/ AnsweredYes("dispatch", r),
             AnsweredYes("dispatch", r)' => AnsweredYes("dispatch", r) \/ Escaped(r)'
      PROVE  TruthLawful(r)'
    BY <1>0, <1>a, TruthKept, CoordinatorKept
<1>2. ASSUME NEW s \in Request, Works(s) \/ Asks(s) PROVE TruthLawful(r)'
  <2>1. UNCHANGED captureVars /\ native' = native /\ (page'[r] = "permitted" => page[r] = "permitted")
    BY <1>2, GoesFx DEF Works, Asks
  <2>2. AnsweredYes("dispatch", r)' => AnsweredYes("dispatch", r) \/ Escaped(r)'
    BY <1>2, DwindleFx, SendsFx DEF Works, Asks
  <2> QED
    BY <1>a, <2>1, <2>2
<1>3. ASSUME NEW s \in Request, SendResult(s) PROVE TruthLawful(r)'
    BY <1>3, <1>a, SendsFx DEF SendResult
<1>4. ASSUME NEW s \in Request, AskCoordinator(s) PROVE TruthLawful(r)'
  <2>1. UNCHANGED captureVars /\ native' = native /\ (page'[r] = "permitted" => page[r] = "permitted")
    BY <1>4 DEF AskCoordinator, TypeInv
  <2>2. AnsweredYes("dispatch", r)' => AnsweredYes("dispatch", r)
    BY <1>4, SendsFx DEF AskCoordinator, AnsweredYes
  <2> QED
    BY <1>a, <2>1, <2>2
<1>5. ASSUME NEW s \in Request, Trigger(s) PROVE TruthLawful(r)'
  <2>1. UNCHANGED <<captureVars, native, calls>> /\ (page'[r] = "permitted" => page[r] = "permitted")
    BY <1>5, TriggerFx DEF TypeInv
  <2> QED
    BY <1>a, <2>1 DEF AnsweredYes
<1>6. ASSUME NEW s \in Request, PageWorks(s) PROVE TruthLawful(r)'
  <2>1. /\ UNCHANGED <<captureVars, calls>> /\ (page'[r] = "permitted" => page[r] = "permitted")
        /\ native'[r] = native[r] \/ native[r] = "sent" \/ page[r] = "permitted"
    BY <1>6, PageWorksFx
  <2>2. page[r] = "permitted" => native[r] = "none"
    BY DEF PageInv, Coming
  <2> QED
    BY <1>a, <2>1, <2>2 DEF AnsweredYes
<1>7. CASE ClaimTick
    BY <1>7, <1>a, SendsFx DEF ClaimTick
<1>8. ASSUME NEW i \in DOMAIN receipts, SendReceipt(i) PROVE TruthLawful(r)'
    BY <1>8, <1>a, SendsFx DEF SendReceipt
<1>9. ASSUME NEW call \in calls, Takes(call) PROVE TruthLawful(r)'
    BY <1>9, <1>a, HeardFx, DwindleFx DEF Takes
<1>10. ASSUME NEW call \in calls, Gives(call) PROVE TruthLawful(r)'
  <2>1. Calm /\ UNCHANGED <<page, native>> /\ (AnsweredYes("dispatch", r)' => AnsweredYes("dispatch", r))
    BY <1>10, GivesFx, GivenCalls DEF Gives
  <2> QED
    BY <1>0, <2>1, TruthKept DEF Calm
<1>11. ASSUME NEW call \in calls, HearDispatch(call) PROVE TruthLawful(r)'
  <2> DEFINE s == call.request
  <2>1. /\ UNCHANGED <<captureVars, native>> /\ Dwindle /\ s \in Request /\ call.op = "dispatch"
        /\ (r # s => page'[r] = page[r])
    BY <1>11, PermissionFx
  <2>2. page'[s] = "permitted" => page[s] = "permitted" \/ call.answer = "yes"
    BY <1>11, PermissionPage
  <2>3. page'[r] = "permitted" => page[r] = "permitted" \/ AnsweredYes("dispatch", r)
    BY <2>1, <2>2 DEF AnsweredYes
  <2> QED
    BY <1>a, <2>1, <2>3, DwindleFx
<1>12. CASE RuntimeRestarts
  <2>1. UNCHANGED <<captureVars, native>> /\ (page'[r] = "permitted" => page[r] = "permitted")
    BY <1>12 DEF RuntimeRestarts
  <2> QED
    BY <1>12, <1>a, <2>1, RestartedCalls
<1>13. CASE Drifts
  <2>1. /\ escaped \subseteq escaped' /\ UNCHANGED <<page, native>> /\ Dwindle
        /\ verdict'[r] = "CONFIRMED" => verdict[r] = "CONFIRMED" \/ native[r] = "saved"
    BY <1>13 DEF Drifts
  <2> QED
    BY <1>0, <2>1, TruthKept, DwindleFx
<1> QED
    BY <1>2, <1>3, <1>4, <1>5, <1>6, <1>7, <1>8, <1>9, <1>10, <1>11, <1>12, <1>13 DEF Moves

-----------------------------------------------------------------------------
(***************************************************************************)
(* A page given back has nothing left to write                             *)
(***************************************************************************)
Returned(r) == Owed("idle", r) \/ OnItsWay("idle", r) \/ r \in ToSet(idleReceipts)
QuietLawful(r) == Returned(r) =>
    /\ page[r] \notin Writing
    /\ task[r] # None => task[r].outcome # None

\* No move gives work to a page that was given back.
LEMMA QuietStep ==
    ASSUME CoordInv, TypeInv, CallInv, TaskInv, PageInv, ClaimInv, QuietInv, Moves, NEW r \in Request
    PROVE  QuietLawful(r)'
<1>0. QuietLawful(r)
    BY DEF QuietInv, QuietLawful, Returned
<1>a. ASSUME Returned(r)' => Returned(r), page'[r] \in Writing => page[r] \in Writing,
             task'[r] # None => task[r] # None /\ (task[r].outcome # None => task'[r].outcome # None)
      PROVE  QuietLawful(r)'
    BY <1>0, <1>a DEF QuietLawful, Writing
<1>b. ASSUME UNCHANGED captureVars, Owed("idle", r)' => Owed("idle", r),
             OnItsWay("idle", r)' => OnItsWay("idle", r) \/ Owed("idle", r)
      PROVE  Returned(r)' => Returned(r)
    BY <1>b, CoordinatorKept DEF Returned
<1>2. ASSUME NEW s \in Request, Works(s) \/ Asks(s) PROVE QuietLawful(r)'
  <2>1. /\ task[s] # None /\ UNCHANGED captureVars /\ QueueGoes(s)
        /\ (r # s => task'[r] = task[r] /\ page'[r] = page[r])
        /\ (task'[s] # None => Becomes(s, task'[s])) /\ (page'[r] \in Writing => page[r] \in Writing)
    BY <1>2, GoesFx DEF Works, Asks, Writing
  <2>2. OnItsWay("idle", r)' => OnItsWay("idle", r)
    BY <1>2, DwindleFx, SendsFx DEF Works, Asks
  <2>3. CASE Owed("idle", r)' => Owed("idle", r)
    <3>1. Returned(r)' => Returned(r)
      BY <1>b, <2>1, <2>2, <2>3
    <3>2. task'[r] # None => task[r] # None /\ (task[r].outcome # None => task'[r].outcome # None)
      BY <2>1 DEF Becomes
    <3> QED
      BY <1>a, <2>1, <3>1, <3>2
  <2>4. CASE ~(Owed("idle", r)' => Owed("idle", r))
    <3>1. r = s /\ (task'[s] # None => task'[s].outcome # None) /\ page'[s] \notin Writing
      BY <2>1, <2>4, KeepsFx, AddsFx DEF QueueGoes
    <3> QED
      BY <3>1 DEF QuietLawful, Writing
  <2> QED
    BY <2>3, <2>4
<1>3. ASSUME NEW s \in Request, SendResult(s) PROVE QuietLawful(r)'
  <2>1. Returned(r)' => Returned(r)
    BY <1>3, <1>b, SendsFx DEF SendResult, Owed
  <2> QED
    BY <1>3, <1>a, <2>1 DEF SendResult
<1>4. ASSUME NEW s \in Request, AskCoordinator(s) PROVE QuietLawful(r)'
  <2>1. OnItsWay("idle", r)' => OnItsWay("idle", r)
    BY <1>4, SendsFx DEF AskCoordinator, OnItsWay
  <2>2. Returned(r)' => Returned(r)
    BY <1>4, <1>b, <2>1 DEF AskCoordinator, Owed
  <2>3. page'[r] \in Writing => page[r] \in Writing
    BY <1>4 DEF AskCoordinator, TypeInv, Writing
  <2> QED
    BY <1>4, <1>a, <2>2, <2>3 DEF AskCoordinator
<1>5. ASSUME NEW s \in Request, Trigger(s) PROVE QuietLawful(r)'
  <2>1. /\ task[s] # None /\ task[s].outcome = None /\ UNCHANGED <<captureVars, receipts, calls>>
        /\ (r # s => task'[r] = task[r] /\ page'[r] = page[r])
    BY <1>5, TriggerFx DEF TypeInv
  <2>2. Returned(r)' => Returned(r)
    BY <1>b, <2>1 DEF Owed, OnItsWay
  <2> QED
    BY <1>0, <2>1, <2>2 DEF QuietLawful, Writing
<1>6. ASSUME NEW s \in Request, PageWorks(s) PROVE QuietLawful(r)'
  <2>1. /\ UNCHANGED <<captureVars, task, receipts, calls>>
        /\ (page'[r] \in Writing => page[r] \in Writing)
    BY <1>6, PageWorksFx DEF Writing
  <2>2. Returned(r)' => Returned(r)
    BY <1>b, <2>1 DEF Owed, OnItsWay
  <2> QED
    BY <1>a, <2>1, <2>2
<1>7. CASE ClaimTick
  <2>1. Returned(r)' => Returned(r)
    BY <1>7, <1>b, SendsFx DEF ClaimTick, Owed
  <2> QED
    BY <1>7, <1>a, <2>1 DEF ClaimTick
<1>8. ASSUME NEW i \in DOMAIN receipts, SendReceipt(i) PROVE QuietLawful(r)'
  <2>1. OnItsWay("idle", r)' => OnItsWay("idle", r) \/ Owed("idle", r)
    BY <1>8, SendsFx DEF SendReceipt, Owed
  <2>2. Returned(r)' => Returned(r)
    BY <1>8, <1>b, <2>1 DEF SendReceipt, Owed
  <2> QED
    BY <1>8, <1>a, <2>2 DEF SendReceipt
<1>9. ASSUME NEW call \in calls, Takes(call) PROVE QuietLawful(r)'
  <2> DEFINE s == call.request
  <2>1. s \in Request /\ Dwindle /\ AnsweredYes("claim", s)
    BY <1>9, HeardFx DEF Takes, CallInv, AnsweredYes
  <2>2. ~Returned(s)
    BY <2>1 DEF ClaimInv, Untouched, Returned, Receipts
  <2>3. UNCHANGED <<captureVars, receipts, page>> /\ (r # s => task'[r] = task[r])
    BY <1>9 DEF Takes, TypeInv
  <2>4. Returned(r)' => Returned(r)
    BY <1>b, <2>1, <2>3, DwindleFx DEF Owed
  <2> QED
    BY <1>0, <2>2, <2>3, <2>4 DEF QuietLawful, Writing
<1>10. ASSUME NEW call \in calls, Gives(call) PROVE QuietLawful(r)'
  <2>1. Calm /\ UNCHANGED <<receipts, page, task>> /\ (OnItsWay("idle", r)' => OnItsWay("idle", r))
    BY <1>10, GivesFx, GivenCalls DEF Gives
  <2>2. Returned(r)' => Returned(r)
    BY <2>1 DEF Returned, Calm, Owed
  <2> QED
    BY <1>a, <2>1, <2>2
<1>11. ASSUME NEW call \in calls, HearDispatch(call) PROVE QuietLawful(r)'
  <2> DEFINE s == call.request
  <2>1. UNCHANGED <<captureVars, receipts>> /\ Dwindle /\ s \in Request
    BY <1>11, PermissionFx
  <2>2. r # s => page'[r] = page[r] /\ task'[r] = task[r]
    BY <1>11, PermissionPage
  <2>3. /\ task'[s].outcome = task[s].outcome /\ task[s] # None /\ task'[s] # None
        /\ (page'[s] \in Writing => page[s] \in Writing \/ task[s].outcome = None)
    BY <1>11, PermissionPage DEF Writing
  <2>4. Returned(r)' => Returned(r)
    BY <1>b, <2>1, DwindleFx DEF Owed
  <2>5. CASE r = s
    BY <1>0, <2>3, <2>4, <2>5 DEF QuietLawful, Writing
  <2>6. CASE r # s
    BY <1>a, <2>1, <2>2, <2>4, <2>6
  <2> QED
    BY <2>5, <2>6
<1>12. CASE RuntimeRestarts
  <2>1. page'[r] \in Writing => page[r] \in Writing
    BY <1>12 DEF RuntimeRestarts, Writing
  <2>2. UNCHANGED captureVars /\ receipts' = <<>>
    BY <1>12 DEF RuntimeRestarts
  <2>3. Returned(r)' => Returned(r)
    BY <1>12, <1>b, <2>2, NothingOwed, RestartedCalls
  <2>4. task'[r] # None => task[r] # None /\ (task[r].outcome # None => task'[r].outcome # None)
    BY <1>12, RestartedTasks
  <2> QED
    BY <1>a, <2>1, <2>3, <2>4
<1>13. CASE Drifts
  <2>1. /\ Keeps(receipts') /\ UNCHANGED <<page, task>> /\ Dwindle
        /\ r \in ToSet(idleReceipts)' => r \in ToSet(idleReceipts) \/ OnItsWay("idle", r)
    BY <1>13 DEF Drifts
  <2>2. Returned(r)' => Returned(r)
    BY <2>1, DwindleFx, KeepsFx DEF Returned
  <2> QED
    BY <1>a, <2>1, <2>2
<1> QED
    BY <1>2, <1>3, <1>4, <1>5, <1>6, <1>7, <1>8, <1>9, <1>10, <1>11, <1>12, <1>13 DEF Moves

-----------------------------------------------------------------------------
(***************************************************************************)
(* The proofs fit the queue                                                *)
(***************************************************************************)
Claiming == \E call \in calls : call.op = "claim" /\ call.waited
Room(r) == Len(receipts) + (IF task[r].ended THEN 1 ELSE 2) <= MaxReceipts

FitLawful ==
    /\ Len(receipts) <= MaxReceipts
    /\ Claiming => active = None /\ Len(receipts) + 2 <= MaxReceipts
    /\ active # None => Room(active)

\* FitInv in terms of who claims and of the room the active task needs.
LEMMA FitMeaning == (FitInv <=> FitLawful) /\ (FitInv' <=> FitLawful')
<1>1. FitInv <=> FitLawful
    BY DEF FitInv, FitLawful, Claiming, Room
<1>2. FitInv' <=> FitLawful'
    BY DEF FitInv, FitLawful, Claiming, Room
<1> QED
    BY <1>1, <1>2

\* Nobody starts to claim, no proof comes, and the task does not go back.
LEMMA FitKept ==
    ASSUME TypeInv, FitInv, receipts' \in Seq(Receipt), Len(receipts') <= Len(receipts), Claiming' => Claiming,
           active' = active, active # None => (task[active].ended => task'[active].ended)
    PROVE  FitInv'
<1>1. Len(receipts) \in Nat /\ Len(receipts') \in Nat /\ MaxReceipts \in Nat
    BY RuntimeAssumption DEF TypeInv
<1>2. active # None => Room(active)'
    BY <1>1, FitMeaning DEF FitLawful, Room
<1> QED
    BY <1>1, <1>2, FitMeaning DEF FitLawful

\* Who may start to claim.
LEMMA ClaimingFx ==
    /\ (\A r : Waiting("claim", r)' => Waiting("claim", r)) => (Claiming' => Claiming)
    /\ UNCHANGED calls => (Claiming' => Claiming)
    /\ \A op, r : op # "claim" /\ calls' = calls \cup {Sent(op, r)} => (Claiming' => Claiming)
<1>1. (\A r : Waiting("claim", r)' => Waiting("claim", r)) => (Claiming' => Claiming)
    BY DEF Claiming, Waiting
<1>2. \A op, r : op # "claim" /\ calls' = calls \cup {Sent(op, r)} => (Claiming' => Claiming)
    BY DEF Claiming, Sent
<1> QED
    BY <1>1, <1>2 DEF Claiming

\* Every move leaves room for the proofs.
LEMMA FitStep ==
    ASSUME CoordInv, TypeInv, CallInv, TaskInv, PageInv, ClaimInv, FitInv, Moves
    PROVE  FitInv'
<1>0. /\ receipts \in Seq(Receipt) /\ Len(receipts) \in Nat /\ MaxReceipts \in Nat
      /\ Len(receipts) <= MaxReceipts
      /\ Claiming => active = None /\ Len(receipts) + 2 <= MaxReceipts
      /\ active # None => Room(active)
    BY FitMeaning, RuntimeAssumption DEF TypeInv, FitLawful
<1>a. ASSUME UNCHANGED <<receipts, active>>, Claiming' => Claiming,
             active # None => (task[active].ended => task'[active].ended)
      PROVE  FitInv'
    BY <1>0, <1>a, FitKept
<1>2. ASSUME NEW s \in Request, Works(s) \/ Asks(s) PROVE FitInv'
  <2>1. /\ task[s] # None /\ QueueGoes(s) /\ (task'[s] # None => Becomes(s, task'[s]))
        /\ \A r \in Request \ {s} : task'[r] = task[r]
    BY <1>2, GoesFx DEF Works, Asks
  <2>2. Claiming' => Claiming
    BY <1>2, ClaimingFx, DwindleFx DEF Works, Asks
  <2>3. CASE active' = active /\ task'[s] # None /\ Keeps(receipts')
    <3>1. active # None => (task[active].ended => task'[active].ended)
      BY <2>1, <2>3 DEF Becomes, TypeInv
    <3> QED
      BY <2>2, <2>3, <3>1, FitKept, KeepsFx
  <2>4. CASE /\ active' = active /\ active = s /\ ~task[s].ended /\ task'[s].ended
             /\ Adds(receipts', "settled", s)
    <3>1. s # None /\ ~Claiming /\ Len(receipts) + 2 <= MaxReceipts
      BY <1>0, <2>4, NoneAssumption DEF Room
    <3>2. Len(receipts') \in Nat /\ Len(receipts') <= Len(receipts) + 1
      BY <2>4, AddsFx
    <3>3. Room(s)'
      BY <1>0, <2>4, <3>1, <3>2 DEF Room
    <3> QED
      BY <1>0, <2>2, <2>4, <3>1, <3>2, <3>3, FitMeaning DEF FitLawful
  <2>5. CASE active = s /\ active' = None /\ Adds(receipts', "idle", s)
    <3>1. s # None /\ ~Claiming /\ Len(receipts) + 1 <= MaxReceipts
      BY <1>0, <2>5, NoneAssumption DEF Room
    <3>2. Len(receipts') \in Nat /\ Len(receipts') <= Len(receipts) + 1
      BY <2>5, AddsFx
    <3> QED
      BY <1>0, <2>2, <2>5, <3>1, <3>2, FitMeaning DEF FitLawful
  <2> QED
    BY <2>1, <2>3, <2>4, <2>5 DEF QueueGoes
<1>3. ASSUME NEW s \in Request, SendResult(s) PROVE FitInv'
    BY <1>3, <1>a, ClaimingFx DEF SendResult
<1>4. ASSUME NEW s \in Request, AskCoordinator(s) PROVE FitInv'
    BY <1>4, <1>a, ClaimingFx DEF AskCoordinator
<1>5. ASSUME NEW s \in Request, Trigger(s) PROVE FitInv'
  <2>1. /\ active = s /\ active' = s /\ UNCHANGED <<calls, receipts>> /\ task[s] # None
        /\ task'[s] = [task[s] EXCEPT !.triggered = TRUE]
    BY <1>5, TriggerFx
  <2>2. task[s] \in CaptureTask
    BY <2>1 DEF TypeInv
  <2>3. task'[s].ended = task[s].ended
    BY <2>1, <2>2 DEF CaptureTask
  <2> QED
    BY <1>a, <2>1, <2>3, ClaimingFx
<1>6. ASSUME NEW s \in Request, PageWorks(s) PROVE FitInv'
    BY <1>6, <1>a, PageWorksFx, ClaimingFx
<1>7. CASE ClaimTick
  <2>1. active = None /\ Len(receipts) <= MaxReceipts - 2 /\ UNCHANGED <<active, receipts, task>>
    BY <1>7 DEF ClaimTick, RoomForProofs
  <2>2. Len(receipts) + 2 <= MaxReceipts
    BY <1>0, <2>1
  <2> QED
    BY <1>0, <2>1, <2>2, FitMeaning DEF FitLawful
<1>8. ASSUME NEW i \in DOMAIN receipts, SendReceipt(i) PROVE FitInv'
  <2>1. receipts[i].kind # "claim"
    BY ReceiptType DEF Receipts
  <2> QED
    BY <1>8, <2>1, <1>a, ClaimingFx DEF SendReceipt
<1>9. ASSUME NEW call \in calls, Takes(call) PROVE FitInv'
  <2> DEFINE s == call.request
  <2>1. /\ s \in Request /\ Dwindle /\ \A d \in calls' : ~Rivals(call, d)
        /\ call.op = "claim" /\ call.waited
    BY <1>9, HeardFx DEF Takes, CallInv
  <2>2. Claiming /\ ~Claiming'
    BY <2>1 DEF Claiming, Rivals
  <2>3. active' = s /\ receipts' = receipts
    BY <1>9 DEF Takes
  <2>4. Room(s)'
    BY <1>0, <2>2, <2>3 DEF Room
  <2> QED
    BY <1>0, <2>2, <2>3, <2>4, FitMeaning DEF FitLawful
<1>10. ASSUME NEW call \in calls, Gives(call) PROVE FitInv'
  <2>1. Claiming' => Claiming
    BY <1>10, GivesFx DEF Claiming
  <2> QED
    BY <1>10, <1>a, <2>1 DEF Gives
<1>11. ASSUME NEW call \in calls, HearDispatch(call) PROVE FitInv'
  <2> DEFINE s == call.request
  <2>1. PICK yes \in BOOLEAN :
        /\ UNCHANGED <<active, receipts>> /\ Dwindle /\ s \in Request /\ task[s] # None /\ task[s] \in CaptureTask
        /\ \A r \in Request \ {s} : task'[r] = task[r]
        /\ task'[s] = [task[s] EXCEPT !.accepted = yes]
    BY <1>11, PermissionFx
  <2>2. task'[s].ended = task[s].ended
    BY <2>1 DEF CaptureTask
  <2>3. active # None => (task[active].ended => task'[active].ended)
    BY <2>1, <2>2 DEF TypeInv
  <2> QED
    BY <1>a, <2>1, <2>3, DwindleFx, ClaimingFx
<1>12. CASE RuntimeRestarts
  <2>1. active' = None /\ receipts' = <<>>
    BY <1>12 DEF RuntimeRestarts
  <2>2. ~Claiming'
    BY <1>12, RestartedCalls DEF Claiming
  <2>3. Len(receipts') = 0
    BY <2>1
  <2> QED
    BY <1>0, <2>1, <2>2, <2>3, FitMeaning DEF FitLawful
<1>13. CASE Drifts
  <2>1. UNCHANGED <<active, task>> /\ Dwindle /\ Keeps(receipts')
    BY <1>13 DEF Drifts
  <2> QED
    BY <2>1, FitKept, KeepsFx, DwindleFx, ClaimingFx
<1> QED
    BY <1>2, <1>3, <1>4, <1>5, <1>6, <1>7, <1>8, <1>9, <1>10, <1>11, <1>12, <1>13 DEF Moves

-----------------------------------------------------------------------------
(***************************************************************************)
(* A save has its grant until the end of its pipeline is proved            *)
(***************************************************************************)
Provable(r) == Owed("settled", r) \/ OnItsWay("settled", r)
Guarding(r) == page[r] \in Writing \/ native[r] = "sent" \/ AnsweredYes("dispatch", r)
Settling(r) == Provable(r) =>
    /\ page[r] = "over" /\ native[r] # "sent" /\ ~Waiting("dispatch", r)
    /\ task[r] # None => task[r].triggered
GuardLawful(r) == (Guarding(r) => Granted(r)) /\ Settling(r)

\* The end of a pipeline that is proved stays the end.
LEMMA SettlingKept ==
    ASSUME NEW r \in Request, Settling(r), Provable(r)' => Provable(r),
           page[r] = "over" => page'[r] = "over",
           native'[r] = "sent" => native[r] = "sent" \/ page[r] # "over",
           Waiting("dispatch", r)' => Waiting("dispatch", r) \/ page[r] # "over",
           task'[r] # None => task[r] # None /\ (task[r].triggered => task'[r].triggered)
    PROVE  Settling(r)'
BY DEF Settling

\* A step that gives no permission and takes no grant.
LEMMA GuardingKept ==
    ASSUME NEW r \in Request, Guarding(r) => Granted(r), grants' = grants,
           page'[r] \in Writing => page[r] \in Writing \/ AnsweredYes("dispatch", r),
           native'[r] = "sent" => native[r] = "sent" \/ page[r] = "permitted",
           AnsweredYes("dispatch", r)' => AnsweredYes("dispatch", r) \/ Granted(r)'
    PROVE  Guarding(r)' => Granted(r)'
<1>1. Granted(r)' <=> Granted(r)
    BY DEF Granted
<1> QED
    BY <1>1 DEF Guarding, Writing

\* No move takes the grant of a save before its end is proved.
LEMMA GuardStep ==
    ASSUME CoordInv, TypeInv, CallInv, TaskInv, PageInv, ClaimInv, GuardInv, Moves, GrantsStay, NEW r \in Request
    PROVE  GuardLawful(r)'
<1>0. (Guarding(r) => Granted(r)) /\ Settling(r)
    BY DEF GuardInv, Guarding, Settling, Provable
<1>a. ASSUME UNCHANGED captureVars,
             page'[r] \in Writing => page[r] \in Writing \/ AnsweredYes("dispatch", r),
             native'[r] = "sent" => native[r] = "sent" \/ page[r] = "permitted",
             AnsweredYes("dispatch", r)' => AnsweredYes("dispatch", r) \/ Granted(r)'
      PROVE  Guarding(r)' => Granted(r)'
    BY <1>0, <1>a, GuardingKept, CoordinatorKept
<1>b. ASSUME Provable(r)' => Provable(r),
             page[r] = "over" => page'[r] = "over",
             native'[r] = "sent" => native[r] = "sent" \/ page[r] # "over",
             Waiting("dispatch", r)' => Waiting("dispatch", r) \/ page[r] # "over",
             task'[r] # None => task[r] # None /\ (task[r].triggered => task'[r].triggered)
      PROVE  Settling(r)'
    BY <1>0, <1>b, SettlingKept
<1>2. ASSUME NEW s \in Request, Works(s) \/ Asks(s) PROVE GuardLawful(r)'
  <2>1. /\ task[s] # None /\ UNCHANGED captureVars /\ native' = native /\ QueueGoes(s)
        /\ (r # s => task'[r] = task[r] /\ page'[r] = page[r])
        /\ (task'[s] # None => Becomes(s, task'[s]))
        /\ (page'[r] \in Writing => page[r] \in Writing) /\ (page[r] = "over" => page'[r] = "over")
    BY <1>2, GoesFx DEF Works, Asks, Writing
  <2>2. /\ OnItsWay("settled", r)' => OnItsWay("settled", r)
        /\ Waiting("dispatch", r)' => Waiting("dispatch", r)
        /\ AnsweredYes("dispatch", r)' => AnsweredYes("dispatch", r) \/ Granted(r)'
    BY <1>2, DwindleFx, SendsFx DEF Works, Asks
  <2>3. task'[r] # None => task[r] # None /\ (task[r].triggered => task'[r].triggered)
    BY <2>1 DEF Becomes
  <2>4. Guarding(r)' => Granted(r)'
    BY <1>a, <2>1, <2>2
  <2>5. CASE Owed("settled", r)' => Owed("settled", r)
    BY <1>b, <2>1, <2>2, <2>3, <2>4, <2>5 DEF Provable, GuardLawful
  <2>6. CASE ~(Owed("settled", r)' => Owed("settled", r))
    <3>1. r = s /\ task[s].triggered /\ page[s] = "done" /\ page'[s] = "over" /\ task'[s] # None
      BY <2>1, <2>6, KeepsFx, AddsFx DEF QueueGoes
    <3>2. native[r] # "sent" /\ ~Waiting("dispatch", r)
      BY <3>1 DEF PageInv
    <3> QED
      BY <2>1, <2>2, <2>3, <2>4, <3>1, <3>2 DEF GuardLawful, Settling
  <2> QED
    BY <2>5, <2>6
<1>3. ASSUME NEW s \in Request, SendResult(s) PROVE GuardLawful(r)'
  <2>1. /\ Provable(r)' => Provable(r)
        /\ Waiting("dispatch", r)' => Waiting("dispatch", r)
        /\ AnsweredYes("dispatch", r)' => AnsweredYes("dispatch", r)
    BY <1>3, SendsFx DEF SendResult, Provable, Owed
  <2> QED
    BY <1>3, <1>a, <1>b, <2>1 DEF SendResult, GuardLawful
<1>4. ASSUME NEW s \in Request, AskCoordinator(s) PROVE GuardLawful(r)'
  <2>1. /\ OnItsWay("settled", r)' => OnItsWay("settled", r)
        /\ Waiting("dispatch", r)' => Waiting("dispatch", r) \/ r = s
        /\ AnsweredYes("dispatch", r)' => AnsweredYes("dispatch", r)
    <3>1. CASE calls' = calls \cup {Sent("dispatch", s)}
      BY <3>1, SendsFx
    <3>2. CASE UNCHANGED calls
      BY <3>2 DEF OnItsWay, Waiting, AnsweredYes
    <3> QED
      BY <1>4, <3>1, <3>2 DEF AskCoordinator
  <2>2. Provable(r)' => Provable(r)
    BY <1>4, <2>1 DEF AskCoordinator, Provable, Owed
  <2>3. /\ page[s] = "checking" /\ (r # s => page'[r] = page[r]) /\ page'[s] \notin Writing
        /\ UNCHANGED <<captureVars, task, native>>
    BY <1>4 DEF AskCoordinator, TypeInv, Writing
  <2> QED
    BY <1>a, <1>b, <2>1, <2>2, <2>3 DEF GuardLawful
<1>5. ASSUME NEW s \in Request, Trigger(s) PROVE GuardLawful(r)'
  <2>1. /\ task[s] # None /\ ~task[s].triggered /\ UNCHANGED <<captureVars, receipts, calls, native>>
        /\ (r # s => task'[r] = task[r] /\ page'[r] = page[r]) /\ page'[s] = "translating"
    BY <1>5, TriggerFx DEF TypeInv
  <2>2. /\ Provable(r)' => Provable(r)
        /\ Waiting("dispatch", r)' => Waiting("dispatch", r)
        /\ AnsweredYes("dispatch", r)' => AnsweredYes("dispatch", r)
    BY <2>1 DEF Provable, Owed, OnItsWay, Waiting, AnsweredYes
  <2>3. Guarding(r)' => Granted(r)'
    BY <1>a, <2>1, <2>2 DEF Writing
  <2>4. Settling(r)'
    BY <1>0, <2>1, <2>2 DEF Settling
  <2> QED
    BY <2>3, <2>4 DEF GuardLawful
<1>6. ASSUME NEW s \in Request, PageWorks(s) PROVE GuardLawful(r)'
  <2>1. /\ UNCHANGED <<captureVars, task, receipts, calls>>
        /\ (page'[r] \in Writing => page[r] \in Writing) /\ (page[r] = "over" => page'[r] = "over")
        /\ (native'[r] = "sent" => native[r] = "sent" \/ page[r] = "permitted")
    BY <1>6, PageWorksFx DEF Writing
  <2>2. /\ Provable(r)' => Provable(r)
        /\ Waiting("dispatch", r)' => Waiting("dispatch", r)
        /\ AnsweredYes("dispatch", r)' => AnsweredYes("dispatch", r)
    BY <2>1 DEF Provable, Owed, OnItsWay, Waiting, AnsweredYes
  <2> QED
    BY <1>a, <1>b, <2>1, <2>2 DEF GuardLawful
<1>7. CASE ClaimTick
  <2>1. /\ Provable(r)' => Provable(r)
        /\ Waiting("dispatch", r)' => Waiting("dispatch", r)
        /\ AnsweredYes("dispatch", r)' => AnsweredYes("dispatch", r)
    BY <1>7, SendsFx DEF ClaimTick, Provable, Owed
  <2> QED
    BY <1>7, <1>a, <1>b, <2>1 DEF ClaimTick, GuardLawful
<1>8. ASSUME NEW i \in DOMAIN receipts, SendReceipt(i) PROVE GuardLawful(r)'
  <2>1. receipts[i].kind \in Receipts /\ Owed(receipts[i].kind, receipts[i].request)
    BY ReceiptType DEF Owed
  <2>2. /\ Provable(r)' => Provable(r)
        /\ Waiting("dispatch", r)' => Waiting("dispatch", r)
        /\ AnsweredYes("dispatch", r)' => AnsweredYes("dispatch", r)
    BY <1>8, <2>1, SendsFx DEF SendReceipt, Provable, Owed, Receipts
  <2> QED
    BY <1>8, <1>a, <1>b, <2>2 DEF SendReceipt, GuardLawful
<1>9. ASSUME NEW call \in calls, Takes(call) PROVE GuardLawful(r)'
  <2> DEFINE s == call.request
  <2>1. s \in Request /\ Dwindle /\ AnsweredYes("claim", s)
    BY <1>9, HeardFx DEF Takes, CallInv, AnsweredYes
  <2>2. ~Provable(s)
    BY <2>1 DEF ClaimInv, Untouched, Provable, Receipts
  <2>3. UNCHANGED <<captureVars, receipts, page, native>> /\ (r # s => task'[r] = task[r])
    BY <1>9 DEF Takes, TypeInv
  <2>4. Provable(r)' => Provable(r)
    BY <2>1, <2>3, DwindleFx DEF Provable, Owed
  <2>5. Guarding(r)' => Granted(r)'
    BY <1>a, <2>1, <2>3, DwindleFx
  <2>6. Settling(r)'
    BY <1>0, <2>1, <2>2, <2>3, <2>4, DwindleFx DEF Settling
  <2> QED
    BY <2>5, <2>6 DEF GuardLawful
<1>10. ASSUME NEW call \in calls, Gives(call) PROVE GuardLawful(r)'
  <2>1. /\ grants' = grants /\ UNCHANGED <<receipts, page, task, native>>
        /\ OnItsWay("settled", r)' => OnItsWay("settled", r)
        /\ Waiting("dispatch", r)' => Waiting("dispatch", r)
        /\ AnsweredYes("dispatch", r)' => AnsweredYes("dispatch", r)
    BY <1>10, GivesFx, GivenCalls DEF Gives
  <2>2. Provable(r)' => Provable(r)
    BY <2>1 DEF Provable, Owed
  <2> QED
    BY <1>0, <1>b, <2>1, <2>2, GuardingKept DEF GuardLawful
<1>11. ASSUME NEW call \in calls, HearDispatch(call) PROVE GuardLawful(r)'
  <2> DEFINE s == call.request
  <2>1. /\ UNCHANGED <<captureVars, receipts, native>> /\ Dwindle /\ s \in Request
        /\ call.op = "dispatch" /\ call.waited
        /\ (r # s => page'[r] = page[r] /\ task'[r] = task[r])
        /\ page'[s] \in {page[s], "failed"} \/ call.answer = "yes"
    <3>1. /\ UNCHANGED <<captureVars, receipts, native>> /\ Dwindle /\ s \in Request
          /\ call.op = "dispatch" /\ call.waited
      BY <1>11, PermissionFx
    <3>2. r # s => page'[r] = page[r] /\ task'[r] = task[r]
      BY <1>11, PermissionPage
    <3>3. page'[s] \in {page[s], "failed"} \/ call.answer = "yes"
      BY <1>11, PermissionPage
    <3> QED
      BY <3>1, <3>2, <3>3
  <2>2. page'[s] \in Writing => page[s] \in Writing \/ call.answer = "yes"
    BY <2>1 DEF Writing
  <2>3. Waiting("dispatch", s) /\ (call.answer = "yes" => AnsweredYes("dispatch", s))
    BY <2>1 DEF Waiting, AnsweredYes
  <2>4. Guarding(r)' => Granted(r)'
    BY <1>a, <2>1, <2>2, <2>3, DwindleFx
  <2>5. Provable(r)' => Provable(r)
    BY <2>1, DwindleFx DEF Provable, Owed
  <2>6. Settling(r)'
    BY <1>0, <2>1, <2>3, <2>5, DwindleFx DEF Settling
  <2> QED
    BY <2>4, <2>6 DEF GuardLawful
<1>12. CASE RuntimeRestarts
  <2>1. /\ page'[r] \in Writing => page[r] \in Writing
        /\ page[r] = "over" => page'[r] = "over"
    BY <1>12 DEF RuntimeRestarts, Writing
  <2>2. UNCHANGED <<captureVars, native>> /\ receipts' = <<>>
    BY <1>12 DEF RuntimeRestarts
  <2>3. Provable(r)' => Provable(r)
    BY <1>12, <2>2, NothingOwed, RestartedCalls DEF Provable
  <2>4. task'[r] # None => task[r] # None /\ (task[r].triggered => task'[r].triggered)
    BY <1>12, RestartedTasks
  <2>5. ~Waiting("dispatch", r)' /\ ~AnsweredYes("dispatch", r)'
    BY <1>12, RestartedCalls
  <2> QED
    BY <1>a, <1>b, <2>1, <2>2, <2>3, <2>4, <2>5 DEF GuardLawful
<1>13. CASE Drifts
  <2>1. /\ Keeps(receipts') /\ UNCHANGED <<page, task, native>> /\ Dwindle
    BY <1>13 DEF Drifts
  <2>2. Settling(r)'
    BY <1>b, <2>1, DwindleFx, KeepsFx DEF Provable
  <2>3. Granted(r) => Granted(r)' \/ Provable(r)
    BY DEF GrantsStay, Provable
  <2>4. AnsweredYes("dispatch", r) => Waiting("dispatch", r)
    BY DEF AnsweredYes, Waiting, CallInv
  <2>5. Guarding(r)' => Guarding(r) \/ Granted(r)'
    BY <2>1, DwindleFx DEF Guarding
  <2>6. Provable(r) => ~Guarding(r)
    BY <1>0, <2>4 DEF Settling, Guarding, Writing
  <2> QED
    BY <1>0, <2>2, <2>3, <2>5, <2>6 DEF GuardLawful
<1> QED
    BY <1>2, <1>3, <1>4, <1>5, <1>6, <1>7, <1>8, <1>9, <1>10, <1>11, <1>12, <1>13 DEF Moves

-----------------------------------------------------------------------------
(***************************************************************************)
(* The invariants hold, and what they show                                 *)
(***************************************************************************)
\* The invariants hold at first.
LEMMA RuntimeStarts == ConnectorInit => RuntimeInv /\ GuardInv
<1> SUFFICES ASSUME ConnectorInit PROVE RuntimeInv /\ GuardInv
    OBVIOUS
<1> USE DEF ConnectorInit
<1>1. CoordInv
  <2>1. TypeOK
    BY TypeInit
  <2> QED
    BY <2>1, NoneAssumption DEF Init, CoordInv, DispatchInv, VerdictMatchesDispatch, Running, Outcome
<1>2. \A op, r : ~OnItsWay(op, r) /\ ~Waiting(op, r) /\ ~AnsweredYes(op, r)
    BY DEF OnItsWay, Waiting, AnsweredYes
<1>3. DOMAIN receipts = {} /\ receipts \in Seq(Receipt) /\ Len(receipts) = 0
    OBVIOUS
<1>4. \A kind, r : ~Owed(kind, r)
    BY <1>3 DEF Owed
<1>5. ToSet(idleReceipts) = {} /\ used = {}
  <2>1. idleReceipts = <<>> /\ DOMAIN idleReceipts = {}
    BY DEF Init
  <2> QED
    BY <2>1 DEF Init, ToSet
<1>6. TypeInv
    BY <1>3 DEF TypeInv, Page
<1>7. CallInv /\ TaskInv
    BY DEF CallInv, TaskInv
<1>8. PageInv
    BY <1>2 DEF PageInv, Coming, Writing
<1>9. ClaimInv
    BY <1>2, <1>4, <1>5 DEF ClaimInv, Untouched
<1>10. TruthInv
    BY <1>2, NoneAssumption DEF TruthInv, Init, Outcome
<1>11. FitInv
    BY <1>3, RuntimeAssumption DEF FitInv
<1>12. QuietInv
    BY <1>2, <1>4, <1>5 DEF QuietInv
<1>13. GuardInv
    BY <1>2, <1>4 DEF GuardInv, Writing
<1> QED
    BY <1>1, <1>6, <1>7, <1>8, <1>9, <1>10, <1>11, <1>12, <1>13 DEF RuntimeInv

\* Every step keeps the invariant, and is a step of the coordinator.
LEMMA RuntimeGoesOn == RuntimeInv /\ [ConnectorRuntimeNext]_runtimeVars => RuntimeInv' /\ [Next]_captureVars
<1> SUFFICES ASSUME RuntimeInv, [ConnectorRuntimeNext]_runtimeVars PROVE RuntimeInv' /\ [Next]_captureVars
    OBVIOUS
<1> USE DEF RuntimeInv
<1>1. Moves /\ [Next]_captureVars
    BY StepMoves
<1>2. CoordInv'
    BY <1>1, TypeNext, DispatchNext, VerdictNext DEF CoordInv
<1>3. TypeInv' /\ CallInv'
    BY <1>1, TypeStep, CallStep
<1>4. TaskInv' /\ PageInv'
    BY <1>1, TaskPageStep
<1>5. ClaimInv'
  <2>1. \A r \in Request : ClaimLawful(r)'
    BY <1>1, ClaimStep
  <2> QED
    BY <2>1 DEF ClaimLawful, ClaimInv
<1>6. TruthInv'
  <2>1. \A r \in Request : TruthLawful(r)'
    BY <1>1, TruthStep
  <2> QED
    BY <2>1 DEF TruthLawful, TruthInv
<1>7. FitInv'
    BY <1>1, FitStep
<1>8. QuietInv'
  <2>1. \A r \in Request : QuietLawful(r)'
    BY <1>1, QuietStep
  <2> QED
    BY <2>1 DEF QuietLawful, Returned, QuietInv
<1> QED
    BY <1>1, <1>2, <1>3, <1>4, <1>5, <1>6, <1>7, <1>8

\* While the web process runs, every step keeps the grants too.
LEMMA GuardGoesOn ==
    ASSUME "server" \notin Faults
    PROVE  RuntimeInv /\ GuardInv /\ [ConnectorRuntimeNext]_runtimeVars => GuardInv'
<1> SUFFICES ASSUME RuntimeInv, GuardInv, [ConnectorRuntimeNext]_runtimeVars PROVE GuardInv'
    OBVIOUS
<1>1. Moves /\ GrantsStay
    BY StepMoves DEF RuntimeInv
<1>2. \A r \in Request : GuardLawful(r)'
    BY <1>1, GuardStep DEF RuntimeInv
<1> QED
    BY <1>2 DEF GuardLawful, Guarding, Settling, Provable, GuardInv

\* What every step of the Connector, its page and its calls keeps: who waits for which call, what a
\* task may still say, how far its page can be, and what the queue of proofs must have room for.
THEOREM RuntimeInvariant == RuntimeSpec => []RuntimeInv
<1>1. ConnectorInit => RuntimeInv
    BY RuntimeStarts
<1>2. RuntimeInv /\ [ConnectorRuntimeNext]_runtimeVars => RuntimeInv'
    BY RuntimeGoesOn
<1> QED
    BY <1>1, <1>2, PTL DEF RuntimeSpec

\* What the invariants say of a report.
LEMMA ReportsTrue == RuntimeInv => ReportsTellTheTruth
<1> SUFFICES ASSUME RuntimeInv PROVE ReportsTellTheTruth
    OBVIOUS
<1> USE DEF RuntimeInv
<1>1. ASSUME NEW r \in Request, verdict[r] = "CONFIRMED" PROVE native[r] = "saved"
    BY <1>1 DEF TruthInv
<1>2. ASSUME NEW r \in Request, verdict[r] = "FAILED" PROVE native[r] = "none"
  <2>1. ~Escaped(r)
    BY <1>2 DEF CoordInv, VerdictMatchesDispatch, Escaped
  <2> QED
    BY <2>1 DEF TruthInv
<1> QED
    BY <1>1, <1>2 DEF ReportsTellTheTruth

\* A Paper is reported imported only if Zotero has its item, and as untouched only if no save of
\* it was ever sent, whatever calls are lost, whatever comes late, and whoever is restarted
\* (literature-monitor-runtime.js with capture_coordinator.py).
THEOREM ReportsAreTrue == RuntimeSpec => []ReportsTellTheTruth
BY RuntimeInvariant, ReportsTrue, PTL

\* With restarts of the web process too, and with any number of proofs it will never take: the
\* Connector's bounded queue never overflows, so no proof is thrown away for want of room.
THEOREM TruthOutlivesRestarts == RuntimeSpec => []TruthSurvivesRestarts
<1>1. RuntimeInv => TruthSurvivesRestarts
    BY ReportsTrue DEF RuntimeInv, FitInv, ProofsFit, TruthSurvivesRestarts
<1> QED
    BY <1>1, RuntimeInvariant, PTL

\* The real Connector, however its calls are lost, delayed or overtaken, is a Connector as
\* capture_coordinator.py expects it: what is proved of the coordinator holds while it is driven
\* by this one.
THEOREM ConnectorKeepsDiscipline ==
    RuntimeSpec => Spec /\ [](GuardFollowsGrants /\ VerdictMatchesDispatch /\ CustodyIsSound)
<1>1. ConnectorInit => Init /\ RuntimeInv
    BY RuntimeStarts DEF ConnectorInit
<1>2. RuntimeInv /\ [ConnectorRuntimeNext]_runtimeVars => RuntimeInv' /\ [Next]_captureVars
    BY RuntimeGoesOn
<1>3. RuntimeSpec => Spec
    BY <1>1, <1>2, PTL DEF RuntimeSpec, Spec
<1> QED
    BY <1>3, GuardCustody, VerdictsAreEarned, CustodyHolds, PTL

\* The type invariant, as the runs check it.
LEMMA ConnectorTyped == RuntimeInv => ConnectorTypeOK
<1> SUFFICES ASSUME RuntimeInv PROVE ConnectorTypeOK
    OBVIOUS
<1>1. ASSUME NEW r \in Request, task[r] # None
      PROVE  /\ task[r].delivery \in Delivery
             /\ task[r].outcome \in Outcome \cup {None}
             /\ DOMAIN task[r] = DOMAIN NewTask
  <2>1. task[r] \in CaptureTask
    BY <1>1 DEF RuntimeInv, TypeInv
  <2>2. DOMAIN task[r] = DOMAIN NewTask
    BY <2>1, NewTaskType DEF CaptureTask
  <2> QED
    BY <2>1, <2>2 DEF CaptureTask
<1> QED
    BY <1>1 DEF RuntimeInv, CoordInv, TypeInv, ConnectorTypeOK

\* A page whose browser the web process takes for returned writes no more, also after a restart of
\* either side (report_import_browser_idle with _maybeReleaseBrowserTask).
THEOREM ReturnIsQuiet == RuntimeSpec => []ReturnedPageIsQuiet
<1>1. RuntimeInv => ReturnedPageIsQuiet
    BY DEF RuntimeInv, QuietInv, Writing, ReturnedPageIsQuiet
<1> QED
    BY <1>1, RuntimeInvariant, PTL

\* While a page may still write to Zotero, or Zotero still works on what it sent, a Workspace
\* Reset is kept out; and a page the web process takes for returned writes no more.  A restart of
\* the web process drops its flocks, so this is about the time it runs.
THEOREM SavesGuarded ==
    ASSUME "server" \notin Faults
    PROVE  RuntimeSpec => []SavesAreGuarded
<1>1. ConnectorInit => RuntimeInv /\ GuardInv
    BY RuntimeStarts
<1>2. (RuntimeInv /\ GuardInv) /\ [ConnectorRuntimeNext]_runtimeVars => (RuntimeInv /\ GuardInv)'
    BY RuntimeGoesOn, GuardGoesOn
<1>3. RuntimeInv /\ GuardInv => SavesAreGuarded
  <2> SUFFICES ASSUME RuntimeInv, GuardInv PROVE SavesAreGuarded
    OBVIOUS
  <2>1. ReturnedPageIsQuiet
    BY DEF RuntimeInv, QuietInv, Writing, ReturnedPageIsQuiet
  <2>2. SaveKeepsResetOut
    BY DEF GuardInv, Granted, Writing, SaveKeepsResetOut
  <2> QED
    BY <2>1, <2>2, ConnectorTyped DEF SavesAreGuarded
<1> QED
    BY <1>1, <1>2, <1>3, PTL DEF RuntimeSpec

=============================================================================
