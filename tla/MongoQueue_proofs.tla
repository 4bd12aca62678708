------------------------- MODULE MongoQueue_proofs -------------------------
(***************************************************************************)
(* Proofs about MongoQueue, for any operators, calls, answerers and bounds: *)
(* the queue that servers share through the database implements CallQueue, *)
(* and no update of a call is lost on the way to the side that waits for   *)
(* it (QueueInv).                                                          *)
(***************************************************************************)
EXTENDS MongoQueue, WellFoundedInduction, TLAPS

----------------------------------------------------------------------------
(* The inductive invariant. *)

\* The types of the variables.
CallerViews == [said : 0..MaxSaid, adone : BOOLEAN, aerr : BOOLEAN]
AnswererViews == [csaid : 0..MaxEvents, cdone : BOOLEAN, cerr : BOOLEAN]
Entries == [kind : {"insert", "update"}, c : Calls]
Opers == [st : {"up", "closing", "closed", "dead"}, dirty : BOOLEAN, last : Nat, tracking : SUBSET Hosts,
          waiting : SUBSET Answerers, mgr : {"idle", "watch", "track", "started"},
          readyFuncs : SUBSET Answerers, next : SUBSET Hosts, sub : {"run", "wait"}, cs : SUBSET Hosts]
Callers == [pc : {"none", "inserting", "open", "over"}, ctx : BOOLEAN, ev : Seq(CallerViews),
            heard : 0..MaxSaid, told : BOOLEAN, lost : BOOLEAN]
Places == {"none", "sub", "find", "wait", "took", "exch", "failed", "drain", "over"}
Ans == [pc : Places, ctx : BOOLEAN, ready : BOOLEAN, sent : BOOLEAN, ev : Calls \cup {None},
        cur : Calls \cup {None}, x : {"off", "run", "end"}, xev : Seq(AnswererViews), cheard : 0..MaxEvents,
        lost : BOOLEAN]

DocType ==
  /\ doc \in [Calls -> Docs] /\ age \in [Calls -> {"fresh", "late", "expired"}] /\ log \in Seq(Entries)
  /\ holder \in [Calls -> Answerers \cup {None}] /\ events \in 0..MaxEvents
OperType == oper \in [Operators -> Opers] /\ \A o \in Operators : oper[o].last <= Len(log)
CallerType == caller \in [Calls -> Callers] /\ \A c \in Calls : Len(caller[c].ev) <= ExchangeCap
AnsType == ans \in [Answerers -> Ans] /\ \A a \in Answerers : Len(ans[a].xev) <= ExchangeCap

\* The document of a call: what the two sides said is bounded by what they heard
\* of each other, and who holds the call is the operator the document names.
DocInv ==
  \A c \in Calls :
    /\ caller[c].pc \in {"none", "inserting"} => doc[c] = NoDoc
    /\ caller[c].heard <= doc[c].said
    /\ doc[c].answered = (holder[c] # None)
    /\ ~doc[c].answered => doc[c].said = 0
    /\ doc[c].said = 0 => doc[c].csaid = 0 /\ ~doc[c].cdone
    /\ doc[c].csaid <= events
    /\ \A i \in DOMAIN caller[c].ev : caller[c].ev[i].said <= doc[c].said

\* An answerer takes one call, and its exchange is of the call it holds.
Idle == {"none", "sub", "find", "wait"}
Busy == {"took", "exch", "failed", "drain"}
HeldInv ==
  /\ \A c \in Calls : holder[c] # None =>
       LET a == holder[c] IN ans[a].cur = c /\ ans[a].pc \notin Idle /\ doc[c].op = AnswererOf[a]
  /\ \A a \in Answerers :
       /\ ans[a].pc \in Idle => ans[a].cheard = 0 /\ ans[a].x = "off"
       /\ ans[a].pc \in Busy \/ ans[a].x = "run" => ans[a].cur \in Calls /\ holder[ans[a].cur] = a
       /\ ans[a].pc = "took" => ans[a].x = "off" /\ ans[a].cheard = 0 /\ doc[ans[a].cur].said = 0
       /\ ans[a].x # "run" => ans[a].xev = <<>>
       /\ \A i \in DOMAIN ans[a].xev : ans[a].xev[i].csaid <= doc[ans[a].cur].csaid

\* The first change of a call is its insert, and who reads an insert of a call that
\* was not changed since misses nothing.
LogInv ==
  /\ \A i \in DOMAIN log : caller[log[i].c].pc \in {"open", "over"}
  /\ \A i, j \in DOMAIN log : log[i].c = log[j].c /\ i < j => log[j].kind = "update"
  /\ \A i \in DOMAIN log : log[i].kind = "insert" /\ (\A j \in DOMAIN log : log[j].c = log[i].c => j <= i) =>
       LET d == doc[log[i].c] IN d.said = 0 /\ ~d.answered /\ ~d.adone /\ ~d.aerr

Inv == DocType /\ OperType /\ CallerType /\ AnsType /\ DocInv /\ HeldInv /\ LogInv /\ NoUpdateLost
----------------------------------------------------------------------------
(* The oplog and the smallest cluster time. *)

\* A set of natural numbers has a smallest element.
LEMMA MinOf ==
  ASSUME NEW S, S \subseteq Nat, S # {}
  PROVE  Min(S) \in S /\ \A y \in S : Min(S) <= y
<1>1. PICK x \in S : \A y \in S : ~(<<y, x>> \in OpToRel(<, Nat))
  BY NatLessThanWellFounded, WFMin
<1>2. ASSUME NEW p \in Nat, NEW q \in Nat, p < q PROVE <<p, q>> \in OpToRel(<, Nat)
  <2>1. <<p, q>> \in Nat \X Nat /\ <<p, q>>[1] = p /\ <<p, q>>[2] = q
    OBVIOUS
  <2>2. <<p, q>>[1] < <<p, q>>[2]
    BY <1>2, <2>1
  <2> QED
    BY <2>1, <2>2, Zenon DEF OpToRel
<1>3. \A y \in S : ~(y < x)
  BY <1>1, <1>2, Zenon
<1>4. \A y \in S : x <= y
  BY <1>3
<1> QED
  BY <1>4 DEF Min

\* The oplog has one more change, of c.
Grows(c, k) ==
  /\ Len(log') = Len(log) + 1 /\ DOMAIN log' = 1 .. (Len(log) + 1)
  /\ log'[Len(log) + 1].kind = k /\ log'[Len(log) + 1].c = c
  /\ \A i \in 1 .. Len(log) : log'[i] = log[i]

\* What an appended change does to the oplog.
LEMMA Added ==
  ASSUME log \in Seq(Entries), NEW c \in Calls, NEW k \in {"insert", "update"},
         log' = Append(log, [kind |-> k, c |-> c])
  PROVE  log' \in Seq(Entries) /\ Grows(c, k) /\ Len(log) \in Nat /\ DOMAIN log = 1 .. Len(log)
<1> DEFINE e == [kind |-> k, c |-> c]
<1>1. e \in Entries /\ e.kind = k /\ e.c = c
  BY DEF Entries
<1> HIDE DEF e
<1>2. log' = Append(log, e)
  BY DEF e
<1> QED
  BY <1>1, <1>2 DEF Grows

\* An update that changes nothing leaves no trace, any other is the last change.
LEMMA Written ==
  ASSUME DocType, NEW c \in Calls, NEW d \in Docs, Write(c, d)
  PROVE  /\ doc' \in [Calls -> Docs] /\ doc'[c] = d /\ \A b \in Calls \ {c} : doc'[b] = doc[b]
         /\ log' \in Seq(Entries) /\ Len(log) \in Nat /\ DOMAIN log = 1 .. Len(log)
         /\ (log' = log /\ doc' = doc) \/ Grows(c, "update")
<1>1. doc \in [Calls -> Docs] /\ log \in Seq(Entries)
  BY DEF DocType
<1>2. doc' = [doc EXCEPT ![c] = d]
  BY DEF Write
<1>3. CASE d = doc[c]
  BY <1>1, <1>2, <1>3 DEF Write
<1>4. CASE d # doc[c]
  <2>1. log' = Append(log, [kind |-> "update", c |-> c])
    BY <1>4 DEF Write
  <2> QED
    BY <1>1, <1>2, <2>1, Added
<1> QED
  BY <1>3, <1>4

----------------------------------------------------------------------------
(* What the actions do to the documents. *)

\* The document of c changes in the fields F only, and the oplog tells.
Fields == {"st", "answered", "op", "said", "adone", "aerr", "csaid", "cdone", "cerr"}
Kept(c, F) == \A f \in Fields \ F : doc'[c][f] = doc[c][f]
Updates(c, F) ==
  /\ doc' \in [Calls -> Docs] /\ (\A b \in Calls \ {c} : doc'[b] = doc[b]) /\ Kept(c, F)
  /\ log' \in Seq(Entries) /\ Len(log) \in Nat /\ DOMAIN log = 1 .. Len(log)
  /\ (log' = log /\ doc' = doc) \/ Grows(c, "update")

\* Each of the updates is of a document's type.
LEMMA DocFields ==
  ASSUME NEW d \in Docs
  PROVE  /\ [d EXCEPT !.cerr = TRUE] \in Docs /\ [d EXCEPT !.aerr = TRUE] \in Docs
         /\ [d EXCEPT !.cdone = TRUE] \in Docs /\ [d EXCEPT !.adone = TRUE] \in Docs
         /\ \A o \in Operators : [d EXCEPT !.answered = TRUE, !.op = o] \in Docs
         /\ d.said < MaxSaid => [d EXCEPT !.said = @ + 1] \in Docs
         /\ d.csaid < MaxEvents => [d EXCEPT !.csaid = @ + 1] \in Docs
<1>1. /\ [d EXCEPT !.cerr = TRUE] \in Docs /\ [d EXCEPT !.aerr = TRUE] \in Docs
      /\ [d EXCEPT !.cdone = TRUE] \in Docs /\ [d EXCEPT !.adone = TRUE] \in Docs
  BY DEF Docs
<1>2. \A o \in Operators : [d EXCEPT !.answered = TRUE, !.op = o] \in Docs
  BY DEF Docs
<1>3. ASSUME NEW n \in 0..MaxSaid PROVE [d EXCEPT !.said = n] \in Docs
  BY DEF Docs
<1>4. ASSUME NEW n \in 0..MaxEvents PROVE [d EXCEPT !.csaid = n] \in Docs
  BY DEF Docs
<1>5. d.said < MaxSaid => d.said + 1 \in 0..MaxSaid
  BY MongoQueueAssumption DEF Docs
<1>6. d.csaid < MaxEvents => d.csaid + 1 \in 0..MaxEvents
  BY MongoQueueAssumption DEF Docs
<1> QED
  BY <1>1, <1>2, <1>3, <1>4, <1>5, <1>6

\* A document of a call that was not inserted, and one that just was.
LEMMA NewDocType == NoDoc \in Docs /\ NewDoc \in Docs
<1>1. 0 \in 0..MaxSaid /\ 0 \in 0..MaxEvents
  BY MongoQueueAssumption
<1>2. NoDoc \in Docs
  BY <1>1 DEF Docs, NoDoc
<1>3. ASSUME NEW d \in Docs PROVE [d EXCEPT !.st = "live"] \in Docs
  BY DEF Docs
<1> QED
  BY <1>2, <1>3 DEF NewDoc

\* The index that removes expired calls keeps what was said and who took them.
LEMMA TTLEffect ==
  ASSUME DocType, NEW c \in Calls, CallTTL(c)
  PROVE  /\ doc' \in [Calls -> Docs] /\ (\A b \in Calls \ {c} : doc'[b] = doc[b])
         /\ Live(c) /\ doc'[c].st = "gone" /\ Kept(c, {"st", "adone", "aerr", "cdone", "cerr"})
         /\ ~doc'[c].adone /\ ~doc'[c].aerr /\ ~doc'[c].cdone
         /\ UNCHANGED <<log, age, sizes, oper, caller, ans, holder, events>>
<1>1. doc \in [Calls -> Docs] /\ doc[c] \in Docs
  BY DEF DocType
<1> DEFINE d == [doc[c] EXCEPT !.st = "gone", !.adone = FALSE, !.aerr = FALSE, !.cdone = FALSE, !.cerr = FALSE]
<1>2. /\ d \in Docs /\ d.st = "gone" /\ ~d.adone /\ ~d.aerr /\ ~d.cdone
      /\ d.answered = doc[c].answered /\ d.op = doc[c].op /\ d.said = doc[c].said /\ d.csaid = doc[c].csaid
  BY <1>1 DEF Docs
<1>3. doc' = [doc EXCEPT ![c] = d] /\ Live(c)
  BY DEF CallTTL
<1> HIDE DEF d
<1> QED
  BY <1>1, <1>2, <1>3 DEF CallTTL, Kept, Fields

\* A new document is the last change.
LEMMA InsertEffect ==
  ASSUME DocType, NEW c \in Calls, doc' = [doc EXCEPT ![c] = NewDoc],
         log' = Append(log, [kind |-> "insert", c |-> c])
  PROVE  /\ doc' \in [Calls -> Docs] /\ (\A b \in Calls \ {c} : doc'[b] = doc[b]) /\ doc'[c] = NewDoc
         /\ log' \in Seq(Entries) /\ Len(log) \in Nat /\ DOMAIN log = 1 .. Len(log) /\ Grows(c, "insert")
  BY NewDocType, Added DEF DocType

\* SendOfferError.
LEMMA ErrorEffect ==
  ASSUME DocType, NEW c \in Calls, SendOfferError(c)
  PROVE  UNCHANGED <<doc, log>> \/ (Updates(c, {"cerr"}) /\ Live(c))
<1> DEFINE d == [doc[c] EXCEPT !.cerr = TRUE]
<1>1. doc[c] \in Docs
  BY DEF DocType
<1>2. d \in Docs /\ \A f \in Fields \ {"cerr"} : d[f] = doc[c][f]
  BY <1>1, DocFields DEF Docs, Fields
<1>3. UNCHANGED <<doc, log>> \/ (Write(c, d) /\ Live(c))
  BY DEF SendOfferError
<1> HIDE DEF d
<1> QED
  BY <1>2, <1>3, Written DEF Updates, Kept

\* SendOfferUpdate.
LEMMA OfferUpdateEffect ==
  ASSUME DocType, NEW c \in Calls, doc[c].csaid <= events, SendOfferUpdate(c)
  PROVE  Updates(c, {"csaid"}) /\ doc'[c].csaid = doc[c].csaid + 1
<1> DEFINE d == [doc[c] EXCEPT !.csaid = @ + 1]
<1>1. doc[c] \in Docs /\ events \in 0..MaxEvents
  BY DEF DocType
<1>0. doc[c].csaid \in Nat
  BY <1>1 DEF Docs
<1>2. events < MaxEvents /\ Write(c, d)
  BY DEF SendOfferUpdate, Event
<1>3. doc[c].csaid < MaxEvents
  BY <1>0, <1>1, <1>2, MongoQueueAssumption
<1>4. d \in Docs
  BY <1>1, <1>3, DocFields
<1>5. d.csaid = doc[c].csaid + 1 /\ \A f \in Fields \ {"csaid"} : d[f] = doc[c][f]
  BY <1>1 DEF Docs, Fields
<1> HIDE DEF d
<1> QED
  BY <1>2, <1>4, <1>5, Written DEF Updates, Kept

\* SendOfferDone.
LEMMA OfferDoneEffect ==
  ASSUME DocType, NEW c \in Calls, SendOfferDone(c)
  PROVE  UNCHANGED <<doc, log>> \/ (Updates(c, {"cdone"}) /\ Live(c))
<1> DEFINE d == [doc[c] EXCEPT !.cdone = TRUE]
<1>1. doc[c] \in Docs
  BY DEF DocType
<1>2. d \in Docs /\ \A f \in Fields \ {"cdone"} : d[f] = doc[c][f]
  BY <1>1, DocFields DEF Docs, Fields
<1>3. UNCHANGED <<doc, log>> \/ (Write(c, d) /\ Live(c))
  BY DEF SendOfferDone
<1> HIDE DEF d
<1> QED
  BY <1>2, <1>3, Written DEF Updates, Kept

\* An answerer takes a call.
LEMMA TakeEffect ==
  ASSUME DocType, AnsType, NEW a \in Answerers, NEW c \in Calls, Take(a, c)
  PROVE  /\ Updates(c, {"answered", "op"}) /\ doc'[c].answered /\ doc'[c].op = AnswererOf[a]
         /\ holder' = [holder EXCEPT ![c] = a]
         /\ ans' \in [Answerers -> Ans] /\ (\A b \in Answerers \ {a} : ans'[b] = ans[b])
         /\ ans'[a].pc = "took" /\ ans'[a].cur = c
         /\ ans'[a].x = ans[a].x /\ ans'[a].xev = ans[a].xev /\ ans'[a].cheard = ans[a].cheard
<1> DEFINE d == [doc[c] EXCEPT !.answered = TRUE, !.op = AnswererOf[a]]
<1>1. doc[c] \in Docs /\ AnswererOf[a] \in Operators
  BY MongoQueueAssumption DEF DocType
<1>2. d \in Docs
  BY <1>1, DocFields
<1>3. d.answered /\ d.op = AnswererOf[a] /\ \A f \in Fields \ {"answered", "op"} : d[f] = doc[c][f]
  BY <1>1 DEF Docs, Fields
<1>4. Write(c, d) /\ holder' = [holder EXCEPT ![c] = a]
  BY DEF Take
<1>5. /\ ans' \in [Answerers -> Ans] /\ (\A b \in Answerers \ {a} : ans'[b] = ans[b])
      /\ ans'[a].pc = "took" /\ ans'[a].cur = c
      /\ ans'[a].x = ans[a].x /\ ans'[a].xev = ans[a].xev /\ ans'[a].cheard = ans[a].cheard
  <2> DEFINE r == [ans[a] EXCEPT !.pc = "took", !.cur = c, !.ev = None, !.sent = FALSE, !.ready = FALSE]
  <2>1. ans[a] \in Ans /\ ans \in [Answerers -> Ans]
    BY DEF AnsType
  <2>2. /\ r \in Ans /\ r.pc = "took" /\ r.cur = c
        /\ r.x = ans[a].x /\ r.xev = ans[a].xev /\ r.cheard = ans[a].cheard
    BY <2>1 DEF Ans, Places
  <2>3. ans' = [ans EXCEPT ![a] = r]
    BY DEF Take
  <2> HIDE DEF r
  <2> QED
    BY <2>1, <2>2, <2>3
<1> HIDE DEF d
<1> QED
  BY <1>2, <1>3, <1>4, <1>5, Written DEF Updates, Kept

\* The error of an exchange whose context is done.
LEMMA ExchangeDoneEffect ==
  ASSUME DocType, NEW a \in Answerers, ans[a].cur \in Calls, ExchangeDone(a)
  PROVE  UNCHANGED <<doc, log>> \/ (Updates(ans[a].cur, {"aerr"}) /\ Live(ans[a].cur))
<1> DEFINE c == ans[a].cur
           d == [doc[c] EXCEPT !.aerr = TRUE]
<1>1. doc[c] \in Docs
  BY DEF DocType
<1>2. d \in Docs /\ \A f \in Fields \ {"aerr"} : d[f] = doc[c][f]
  BY <1>1, DocFields DEF Docs, Fields
<1>3. UNCHANGED <<doc, log>> \/ (Write(c, d) /\ Live(c))
  BY DEF ExchangeDone
<1> HIDE DEF d
<1> QED
  BY <1>2, <1>3, Written DEF Updates, Kept

\* AnswererRespond.
LEMMA RespondEffect ==
  ASSUME DocType, NEW a \in Answerers, ans[a].cur \in Calls, AnswererRespond(a)
  PROVE  /\ Live(ans[a].cur) /\ ans[a].pc = "exch"
         /\ \/ /\ Updates(ans[a].cur, {"said"}) /\ doc'[ans[a].cur].said = doc[ans[a].cur].said + 1
               /\ UNCHANGED <<ans, events>>
            \/ Updates(ans[a].cur, {"aerr"}) /\ Event /\ ans' = [ans EXCEPT ![a].pc = "failed"]
<1> DEFINE c == ans[a].cur
           d == [doc[c] EXCEPT !.said = @ + 1]
           e == [doc[c] EXCEPT !.aerr = TRUE]
<1>1. doc[c] \in Docs
  BY DEF DocType
<1>2. e \in Docs /\ \A f \in Fields \ {"aerr"} : e[f] = doc[c][f]
  BY <1>1, DocFields DEF Docs, Fields
<1>3. doc[c].said < MaxSaid => d \in Docs
  BY <1>1, DocFields
<1>4. d.said = doc[c].said + 1 /\ \A f \in Fields \ {"said"} : d[f] = doc[c][f]
  BY <1>1 DEF Docs, Fields
<1>5. \/ doc[c].said < MaxSaid /\ Write(c, d) /\ UNCHANGED <<ans, events>>
      \/ Write(c, e) /\ Event /\ ans' = [ans EXCEPT ![a].pc = "failed"]
  BY DEF AnswererRespond
<1>6. Live(c) /\ ans[a].pc = "exch"
  BY DEF AnswererRespond
<1> HIDE DEF d, e
<1> QED
  BY <1>2, <1>3, <1>4, <1>5, <1>6, Written DEF Updates, Kept

\* AnswererDone.
LEMMA AnswererDoneEffect ==
  ASSUME DocType, NEW a \in Answerers, ans[a].cur \in Calls, AnswererDone(a)
  PROVE  UNCHANGED <<doc, log>> \/ (Updates(ans[a].cur, {"adone"}) /\ Live(ans[a].cur))
<1> DEFINE c == ans[a].cur
           d == [doc[c] EXCEPT !.adone = TRUE]
<1>1. doc[c] \in Docs
  BY DEF DocType
<1>2. d \in Docs /\ \A f \in Fields \ {"adone"} : d[f] = doc[c][f]
  BY <1>1, DocFields DEF Docs, Fields
<1>3. UNCHANGED <<doc, log>> \/ (Write(c, d) /\ Live(c))
  BY DEF AnswererDone
<1> HIDE DEF d
<1> QED
  BY <1>2, <1>3, Written DEF Updates, Kept

----------------------------------------------------------------------------
(* Steps that are steady: most of what operators, callers and answerers do *)
(* leaves alone what the two sides said and heard, or writes one field of a *)
(* document.                                                               *)

\* From the state r to s of an operator: its position stays, or it goes down.
OperKeeps(r, s) == (s.st = r.st /\ s.last = r.last) \/ (s.st # "up" /\ s.last <= r.last)

\* A caller has heard the same, and it goes on with the same events or ends.
CallerKeeps(r, s) ==
  /\ s.heard = r.heard
  /\ \/ /\ s.ev = r.ev /\ s.lost = r.lost
        /\ s.pc = r.pc \/ (s.pc = "inserting" /\ r.pc = "none") \/ s.pc = "over"
     \/ s.pc = "over" /\ s.ev = <<>>

\* An answerer has heard the same, and its exchange goes on or ends.
AnsKeeps(r, s) ==
  /\ s.cur = r.cur /\ s.cheard = r.cheard
  /\ \/ s.x = r.x /\ s.xev = r.xev /\ s.lost = r.lost
     \/ s.x = "end" /\ s.xev = <<>> /\ s.pc \notin Idle \cup {"took"}
  /\ \/ s.pc = r.pc \/ s.pc = "over"
     \/ s.pc \in Idle /\ r.pc \in Idle
     \/ s.pc \in {"failed", "drain"} /\ r.pc \in Busy

OpersKeep == oper' \in [Operators -> Opers] /\ \A o \in Operators : OperKeeps(oper[o], oper'[o])
CallersKeep == caller' \in [Calls -> Callers] /\ \A c \in Calls : CallerKeeps(caller[c], caller'[c])
AllAnsKeep == ans' \in [Answerers -> Ans] /\ \A a \in Answerers : AnsKeeps(ans[a], ans'[a])

\* The answerer says one thing more, or the caller does, or neither.
Said(c) ==
  \/ doc'[c].said = doc[c].said /\ doc'[c].csaid = doc[c].csaid
  \/ /\ doc'[c].said = doc[c].said + 1 /\ doc'[c].csaid = doc[c].csaid
     /\ doc[c].answered /\ ans[holder[c]].pc # "took"
  \/ /\ doc'[c].said = doc[c].said /\ doc'[c].csaid = doc[c].csaid + 1
     /\ caller[c].heard > 0 /\ events' = events + 1

Wrote(c) ==
  /\ Live(c) /\ doc' \in [Calls -> Docs] /\ (\A b \in Calls \ {c} : doc'[b] = doc[b])
  /\ doc'[c].st = doc[c].st /\ doc'[c].answered = doc[c].answered /\ doc'[c].op = doc[c].op
  /\ Said(c) /\ (doc'[c].cdone = doc[c].cdone \/ caller[c].heard > 0)
  /\ log' \in Seq(Entries) /\ Grows(c, "update")

Steady ==
  /\ OpersKeep /\ CallersKeep /\ AllAnsKeep /\ holder' = holder
  /\ age' \in [Calls -> {"fresh", "late", "expired"}] /\ events' \in 0..MaxEvents /\ events <= events'
  /\ UNCHANGED <<doc, log>> \/ \E c \in Calls : Wrote(c)

\* A counted event stays below its bound.
LEMMA Counted ==
  ASSUME DocType
  PROVE  /\ age \in [Calls -> {"fresh", "late", "expired"}]
         /\ UNCHANGED events => events' \in 0..MaxEvents /\ events <= events'
         /\ Event => events' \in 0..MaxEvents /\ events <= events'
  BY MongoQueueAssumption DEF DocType, Event

\* One operator, one caller or one answerer changes, or none does.
LEMMA OneOper ==
  ASSUME OperType, NEW o \in Operators, NEW r \in Opers, OperKeeps(oper[o], r), oper' = [oper EXCEPT ![o] = r]
  PROVE  OpersKeep
<1>1. ASSUME NEW p \in Operators PROVE OperKeeps(oper[p], oper[p])
  BY DEF OperKeeps
<1>2. oper \in [Operators -> Opers]
  BY DEF OperType
<1> QED
  BY <1>1, <1>2 DEF OpersKeep

\* A step that changes one caller, and keeps what must be kept of it, keeps it for all.
LEMMA OneCaller ==
  ASSUME CallerType, NEW c \in Calls, NEW r \in Callers, CallerKeeps(caller[c], r), caller' = [caller EXCEPT ![c] = r]
  PROVE  CallersKeep
<1>1. ASSUME NEW b \in Calls PROVE CallerKeeps(caller[b], caller[b])
  BY DEF CallerKeeps
<1>2. caller \in [Calls -> Callers]
  BY DEF CallerType
<1> QED
  BY <1>1, <1>2 DEF CallersKeep

\* The same for a step that changes one answerer.
LEMMA OneAns ==
  ASSUME AnsType, NEW a \in Answerers, NEW r \in Ans, AnsKeeps(ans[a], r), ans' = [ans EXCEPT ![a] = r]
  PROVE  AllAnsKeep
<1>1. ASSUME NEW b \in Answerers PROVE AnsKeeps(ans[b], ans[b])
  BY DEF AnsKeeps
<1>2. ans \in [Answerers -> Ans]
  BY DEF AnsType
<1> QED
  BY <1>1, <1>2 DEF AllAnsKeep

\* A step that leaves operators, callers or answerers alone keeps what must be kept of them.
LEMMA Unmoved ==
  ASSUME OperType, CallerType, AnsType
  PROVE  /\ UNCHANGED oper => OpersKeep
         /\ UNCHANGED caller => CallersKeep
         /\ UNCHANGED ans => AllAnsKeep
<1>1. UNCHANGED oper => OpersKeep
  BY DEF OperType, OpersKeep, OperKeeps
<1>2. UNCHANGED caller => CallersKeep
  BY DEF CallerType, CallersKeep, CallerKeeps
<1>3. UNCHANGED ans => AllAnsKeep
  BY DEF AnsType, AllAnsKeep, AnsKeeps
<1> QED
  BY <1>1, <1>2, <1>3

----------------------------------------------------------------------------
(* What operators do by themselves. *)

\* The stream in use fails.
LEMMA StreamFailsSteady ==
  ASSUME Inv, NEW o \in Operators, StreamFails(o)
  PROVE  Steady
<1> DEFINE r == [oper[o] EXCEPT !.dirty = TRUE, !.sub = "wait"]
<1>1. oper[o] \in Opers /\ oper \in [Operators -> Opers] /\ OperType
  BY DEF Inv, OperType
<1>2. r \in Opers /\ OperKeeps(oper[o], r)
  BY <1>1 DEF Opers, OperKeeps
<1>3. oper' = [oper EXCEPT ![o] = r]
  BY <1>1 DEF StreamFails
<1> HIDE DEF r
<1>4. OpersKeep
  BY <1>1, <1>2, <1>3, OneOper
<1> QED
  BY <1>4, Counted, Unmoved DEF StreamFails, Inv, Steady

\* A tick of the manager.
LEMMA ManagerTickSteady ==
  ASSUME Inv, NEW o \in Operators, ManagerTick(o)
  PROVE  Steady
<1> DEFINE r == [oper[o] EXCEPT !.mgr = "watch", !.dirty = FALSE, !.next = WaitingHosts(o),
                                   !.readyFuncs = oper[o].waiting, !.waiting = {}]
<1>1. oper[o] \in Opers /\ oper \in [Operators -> Opers] /\ OperType
  BY DEF Inv, OperType
<1>p. WaitingHosts(o) \in SUBSET Hosts
  BY DEF WaitingHosts
<1>2. r \in Opers /\ OperKeeps(oper[o], r)
  BY <1>1, <1>p DEF Opers, OperKeeps
<1>3. oper' = [oper EXCEPT ![o] = r]
  BY <1>1 DEF ManagerTick
<1> HIDE DEF r
<1>4. OpersKeep
  BY <1>1, <1>2, <1>3, OneOper
<1> QED
  BY <1>4, Counted, Unmoved DEF ManagerTick, Inv, Steady

\* Watch succeeds.
LEMMA ManagerWatchSteady ==
  ASSUME Inv, NEW o \in Operators, ManagerWatch(o)
  PROVE  Steady
<1> DEFINE r == [oper[o] EXCEPT !.mgr = "track", !.readyFuncs = {}]
<1>1. oper[o] \in Opers /\ oper \in [Operators -> Opers] /\ OperType
  BY DEF Inv, OperType
<1>2. r \in Opers /\ OperKeeps(oper[o], r)
  BY <1>1 DEF Opers, OperKeeps
<1>3. oper' = [oper EXCEPT ![o] = r]
  BY <1>1 DEF ManagerWatch
<1> HIDE DEF r
<1>4. OpersKeep
  BY <1>1, <1>2, <1>3, OneOper
<1>5. AllAnsKeep
  <2> DEFINE f(a) == IF a \in oper[o].readyFuncs /\ ans[a].pc = "sub" THEN [ans[a] EXCEPT !.ready = TRUE] ELSE ans[a]
  <2>1. ASSUME NEW a \in Answerers PROVE f(a) \in Ans /\ AnsKeeps(ans[a], f(a))
    BY DEF Inv, AnsType, Ans, AnsKeeps
  <2>2. ans' = [a \in Answerers |-> f(a)]
    BY DEF ManagerWatch
  <2> HIDE DEF f
  <2> QED
    BY <2>1, <2>2 DEF AllAnsKeep
<1> QED
  BY <1>4, <1>5, Counted, Unmoved DEF ManagerWatch, Inv, Steady

\* Watch fails.
LEMMA ManagerWatchFailsSteady ==
  ASSUME Inv, NEW o \in Operators, ManagerWatchFails(o)
  PROVE  Steady
<1> DEFINE r == [oper[o] EXCEPT !.mgr = "idle", !.dirty = TRUE, !.readyFuncs = {}, !.next = {}]
<1>1. oper[o] \in Opers /\ oper \in [Operators -> Opers] /\ OperType
  BY DEF Inv, OperType
<1>2. r \in Opers /\ OperKeeps(oper[o], r)
  BY <1>1 DEF Opers, OperKeeps
<1>3. oper' = [oper EXCEPT ![o] = r]
  BY <1>1 DEF ManagerWatchFails
<1> HIDE DEF r
<1>4. OpersKeep
  BY <1>1, <1>2, <1>3, OneOper
<1> QED
  BY <1>4, Counted, Unmoved DEF ManagerWatchFails, Inv, Steady

\* The hosts are tracked.
LEMMA ManagerTrackSteady ==
  ASSUME Inv, NEW o \in Operators, ManagerTrack(o)
  PROVE  Steady
<1> DEFINE r == [oper[o] EXCEPT !.mgr = "started", !.tracking = oper[o].next]
<1>1. oper[o] \in Opers /\ oper \in [Operators -> Opers] /\ OperType
  BY DEF Inv, OperType
<1>2. r \in Opers /\ OperKeeps(oper[o], r)
  BY <1>1 DEF Opers, OperKeeps
<1>3. oper' = [oper EXCEPT ![o] = r]
  BY <1>1 DEF ManagerTrack
<1> HIDE DEF r
<1>4. OpersKeep
  BY <1>1, <1>2, <1>3, OneOper
<1> QED
  BY <1>4, Counted, Unmoved DEF ManagerTrack, Inv, Steady

\* The new stream is taken: its position is that of the one before.
LEMMA HandOverSteady ==
  ASSUME Inv, NEW o \in Operators, HandOver(o)
  PROVE  Steady
<1> DEFINE r == [oper[o] EXCEPT !.mgr = "idle", !.cs = oper[o].next, !.next = {}, !.sub = "run"]
<1>1. oper[o] \in Opers /\ oper \in [Operators -> Opers] /\ OperType
  BY DEF Inv, OperType
<1>2. r \in Opers /\ OperKeeps(oper[o], r)
  BY <1>1 DEF Opers, OperKeeps
<1>3. oper' = [oper EXCEPT ![o] = r]
  BY <1>1 DEF HandOver
<1> HIDE DEF r
<1>4. OpersKeep
  BY <1>1, <1>2, <1>3, OneOper
<1> QED
  BY <1>4, Counted, Unmoved DEF HandOver, Inv, Steady

\* Close has returned.
LEMMA CloseReturnsSteady ==
  ASSUME Inv, NEW o \in Operators, CloseReturns(o)
  PROVE  Steady
<1> DEFINE r == [oper[o] EXCEPT !.st = "closed"]
<1>1. oper[o] \in Opers /\ oper \in [Operators -> Opers] /\ OperType
  BY DEF Inv, OperType
<1>2. r \in Opers /\ OperKeeps(oper[o], r)
  BY <1>1 DEF Opers, OperKeeps
<1>3. oper' = [oper EXCEPT ![o] = r]
  BY <1>1 DEF CloseReturns
<1> HIDE DEF r
<1>4. OpersKeep
  BY <1>1, <1>2, <1>3, OneOper
<1> QED
  BY <1>4, Counted, Unmoved DEF CloseReturns, Inv, Steady

\* The queue's own state is gone when it is closed ...
LEMMA CloseSteady ==
  ASSUME Inv, NEW o \in Operators, Close(o)
  PROVE  Steady
<1> DEFINE r == [NewOper EXCEPT !.st = "closing"]
<1>1. oper[o] \in Opers /\ oper \in [Operators -> Opers] /\ OperType
  BY DEF Inv, OperType
<1>p. NewOper \in Opers /\ 0 <= oper[o].last
  BY <1>1 DEF NewOper, Opers
<1>2. r \in Opers /\ OperKeeps(oper[o], r)
  BY <1>1, <1>p DEF Opers, OperKeeps, NewOper
<1>3. oper' = [oper EXCEPT ![o] = r]
  BY <1>1 DEF Close
<1> HIDE DEF r
<1>4. OpersKeep
  BY <1>1, <1>2, <1>3, OneOper
<1> QED
  BY <1>4, Counted, Unmoved DEF Close, Inv, Steady

\* ... and, with its callers and answerers, when it crashes.
LEMMA CrashSteady ==
  ASSUME Inv, NEW o \in Operators, Crash(o)
  PROVE  Steady
<1> DEFINE r == [NewOper EXCEPT !.st = "dead"]
<1>1. oper[o] \in Opers /\ oper \in [Operators -> Opers] /\ OperType
  BY DEF Inv, OperType
<1>p. NewOper \in Opers /\ 0 <= oper[o].last
  BY <1>1 DEF NewOper, Opers
<1>2. r \in Opers /\ OperKeeps(oper[o], r)
  BY <1>1, <1>p DEF Opers, OperKeeps, NewOper
<1>3. oper' = [oper EXCEPT ![o] = r]
  BY <1>1 DEF Crash
<1> HIDE DEF r
<1>4. OpersKeep
  BY <1>1, <1>2, <1>3, OneOper
<1>5. CallersKeep
  <2> DEFINE f(c) == IF CallerOf[c] # o THEN caller[c] ELSE [caller[c] EXCEPT !.pc = "over", !.ev = <<>>, !.lost = FALSE]
  <2>0. <<>> \in Seq(CallerViews)
    OBVIOUS
  <2>1. ASSUME NEW c \in Calls PROVE f(c) \in Callers /\ CallerKeeps(caller[c], f(c))
    BY <2>0 DEF Inv, CallerType, Callers, CallerKeeps
  <2>2. caller' = [c \in Calls |-> f(c)]
    BY DEF Crash
  <2> HIDE DEF f
  <2> QED
    BY <2>1, <2>2 DEF CallersKeep
<1>6. AllAnsKeep
  <2> DEFINE g(a) == [ans[a] EXCEPT !.pc = "over", !.ctx = TRUE, !.x = "end", !.ev = None, !.xev = <<>>, !.lost = FALSE]
             f(a) == IF AnswererOf[a] # o THEN ans[a] ELSE g(a)
  <2>0. <<>> \in Seq(AnswererViews)
    OBVIOUS
  <2>1. ASSUME NEW a \in Answerers PROVE g(a) \in Ans /\ AnsKeeps(ans[a], g(a)) /\ ans[a] \in Ans /\ AnsKeeps(ans[a], ans[a])
    <3>1. ans[a] \in Ans
      BY DEF Inv, AnsType
    <3>2. g(a) \in Ans
      BY <2>0, <3>1 DEF Ans, Places
    <3>3. AnsKeeps(ans[a], g(a))
      BY <3>1 DEF Ans, AnsKeeps, Idle
    <3> QED
      BY <3>1, <3>2, <3>3 DEF AnsKeeps
  <2>2. ans' = [a \in Answerers |-> f(a)]
    BY DEF Crash
  <2> HIDE DEF g
  <2> QED
    BY <2>1, <2>2 DEF AllAnsKeep
<1> QED
  BY <1>4, <1>5, <1>6, Counted, Unmoved DEF Crash, Inv, Steady

\* Time passes for an offer.
LEMMA GrowSteady ==
  ASSUME Inv, NEW c \in Calls, Grow(c)
  PROVE  Steady
<1>1. age' \in [Calls -> {"fresh", "late", "expired"}]
  BY DEF Grow, Inv, DocType
<1> QED
  BY <1>1, Counted, Unmoved DEF Grow, Inv, Steady

----------------------------------------------------------------------------
(* What callers do. *)

\* A client hangs up.
LEMMA CallCancelSteady ==
  ASSUME Inv, NEW c \in Calls, CallCancel(c)
  PROVE  Steady
<1> DEFINE r == [caller[c] EXCEPT !.ctx = TRUE]
<1>1. caller[c] \in Callers /\ caller \in [Calls -> Callers] /\ CallerType /\ <<>> \in Seq(CallerViews)
  BY DEF Inv, CallerType
<1>2. r \in Callers /\ CallerKeeps(caller[c], r)
  BY <1>1 DEF Callers, CallerKeeps, CallCancel
<1>3. caller' = [caller EXCEPT ![c] = r]
  BY <1>1 DEF CallCancel
<1> HIDE DEF r
<1>4. CallersKeep
  BY <1>1, <1>2, <1>3, OneCaller
<1> QED
  BY <1>4, Counted, Unmoved DEF CallCancel, Inv, Steady

\* The client's SendOfferDone.
LEMMA SendOfferDoneSteady ==
  ASSUME Inv, NEW c \in Calls, SendOfferDone(c)
  PROVE  Steady
<1> DEFINE r == [caller[c] EXCEPT !.told = TRUE]
<1>1. caller[c] \in Callers /\ caller \in [Calls -> Callers] /\ CallerType /\ <<>> \in Seq(CallerViews)
  BY DEF Inv, CallerType
<1>2. r \in Callers /\ CallerKeeps(caller[c], r)
  BY <1>1 DEF Callers, CallerKeeps, SendOfferDone
<1>3. caller' = [caller EXCEPT ![c] = r]
  BY <1>1 DEF SendOfferDone
<1> HIDE DEF r
<1>4. CallersKeep
  BY <1>1, <1>2, <1>3, OneCaller
<1>5. UNCHANGED <<doc, log>> \/ Wrote(c)
  <2>1. DocType
    BY DEF Inv
  <2>2. (UNCHANGED <<doc, log>> \/ (Updates(c, {"cdone"}) /\ Live(c))) /\ caller[c].heard > 0
    BY <2>1, OfferDoneEffect DEF SendOfferDone
  <2> QED
    BY <2>2 DEF Updates, Kept, Fields, Wrote, Said
<1> QED
  BY <1>4, <1>5, Counted, Unmoved DEF SendOfferDone, Inv, Steady

\* The context of a caller is done.
LEMMA CallerReturnSteady ==
  ASSUME Inv, NEW c \in Calls, CallerReturn(c)
  PROVE  Steady
<1> DEFINE r == [caller[c] EXCEPT !.pc = "over", !.ev = <<>>, !.lost = FALSE]
<1>1. caller[c] \in Callers /\ caller \in [Calls -> Callers] /\ CallerType /\ <<>> \in Seq(CallerViews)
  BY DEF Inv, CallerType
<1>2. r \in Callers /\ CallerKeeps(caller[c], r)
  BY <1>1 DEF Callers, CallerKeeps, CallerReturn
<1>3. caller' = [caller EXCEPT ![c] = r]
  BY <1>1 DEF CallerReturn
<1> HIDE DEF r
<1>4. CallersKeep
  BY <1>1, <1>2, <1>3, OneCaller
<1>5. UNCHANGED <<doc, log>> \/ Wrote(c)
  <2>1. DocType
    BY DEF Inv
  <2>2. UNCHANGED <<doc, log>> \/ (Updates(c, {"cerr"}) /\ Live(c))
    BY <2>1, ErrorEffect DEF CallerReturn
  <2> QED
    BY <2>2 DEF Updates, Kept, Fields, Wrote, Said
<1> QED
  BY <1>4, <1>5, Counted, Unmoved DEF CallerReturn, Inv, Steady

\* The client's SendOfferUpdate.
LEMMA SendOfferUpdateSteady ==
  ASSUME Inv, NEW c \in Calls, SendOfferUpdate(c)
  PROVE  Steady
<1>1. DocType /\ doc[c].csaid <= events /\ caller[c].heard > 0 /\ events' = events + 1 /\ Live(c)
  BY DEF Inv, DocInv, SendOfferUpdate, Event
<1>2. Updates(c, {"csaid"}) /\ doc'[c].csaid = doc[c].csaid + 1
  BY <1>1, OfferUpdateEffect
<1>3. UNCHANGED <<doc, log>> \/ Wrote(c)
  BY <1>1, <1>2 DEF Updates, Kept, Fields, Wrote, Said
<1> QED
  BY <1>3, Counted, Unmoved DEF SendOfferUpdate, Inv, Steady

\* The offer of a client.
LEMMA SendOfferInitSteady ==
  ASSUME Inv, NEW c \in Calls, SendOfferInit(c)
  PROVE  Steady
<1>1. caller[c] \in Callers /\ caller \in [Calls -> Callers] /\ CallerType
  BY DEF Inv, CallerType
<1>2. PICK x \in {"inserting", "over"} : caller' = [caller EXCEPT ![c].pc = x] /\ caller[c].pc = "none"
  BY DEF SendOfferInit
<1> DEFINE r == [caller[c] EXCEPT !.pc = x]
<1>3. r \in Callers /\ CallerKeeps(caller[c], r)
  BY <1>1, <1>2 DEF Callers, CallerKeeps
<1>4. caller' = [caller EXCEPT ![c] = r]
  BY <1>1, <1>2
<1> HIDE DEF r
<1>5. CallersKeep
  BY <1>1, <1>3, <1>4, OneCaller
<1> QED
  BY <1>5, Counted, Unmoved DEF SendOfferInit, Inv, Steady

\* The document of a call is inserted ...
Inserts(c) ==
  /\ caller[c].pc = "inserting" /\ caller' = [caller EXCEPT ![c].pc = "open"]
  /\ doc' = [doc EXCEPT ![c] = NewDoc] /\ log' = Append(log, [kind |-> "insert", c |-> c])
  /\ UNCHANGED <<age, sizes, oper, ans, holder, events>>

\* ... or is not.
LEMMA InsertCallSteady ==
  ASSUME Inv, NEW c \in Calls, InsertCall(c)
  PROVE  Inserts(c) \/ Steady
<1>1. caller[c] \in Callers /\ caller \in [Calls -> Callers] /\ CallerType
  BY DEF Inv, CallerType
<1>2. CASE caller' = [caller EXCEPT ![c].pc = "over"] /\ UNCHANGED <<doc, log>> /\ (UNCHANGED events \/ Event)
  <2> DEFINE r == [caller[c] EXCEPT !.pc = "over"]
  <2>1. r \in Callers /\ CallerKeeps(caller[c], r)
    BY <1>1 DEF Callers, CallerKeeps
  <2>2. caller' = [caller EXCEPT ![c] = r]
    BY <1>1, <1>2
  <2> HIDE DEF r
  <2>3. CallersKeep
    BY <1>1, <2>1, <2>2, OneCaller
  <2> QED
    BY <1>2, <2>3, Counted, Unmoved DEF InsertCall, Inv, Steady
<1> QED
  BY <1>2 DEF InsertCall, Inserts

----------------------------------------------------------------------------
(* What answerers do. *)

\* A subscription, with the context of the answerer cancelled or not.
LEMMA SubscribeKeeps ==
  ASSUME OperType, AnsType, NEW a \in Answerers, NEW v \in Ans, Subscribe(a, v), ans[a].pc \in Idle,
         v.cur = ans[a].cur, v.cheard = ans[a].cheard, v.x = ans[a].x, v.xev = ans[a].xev, v.lost = ans[a].lost
  PROVE  OpersKeep /\ AllAnsKeep
<1>1. OpersKeep
  <2> DEFINE o == AnswererOf[a]
             r == [oper[o] EXCEPT !.waiting = @ \cup {a}, !.dirty = TRUE]
  <2>1. o \in Operators /\ oper[o] \in Opers /\ oper \in [Operators -> Opers]
    BY MongoQueueAssumption DEF OperType
  <2>2. r \in Opers /\ OperKeeps(oper[o], r)
    BY <2>1 DEF Opers, OperKeeps
  <2>3. oper' = oper \/ oper' = [oper EXCEPT ![o] = r]
    BY <2>1 DEF Subscribe
  <2> HIDE DEF r, o
  <2>4. oper' = oper => OpersKeep
    BY DEF OpersKeep, OperKeeps, OperType
  <2> QED
    BY <2>1, <2>2, <2>3, <2>4, OneOper
<1>2. AllAnsKeep
  <2>1. PICK q \in {"find", "sub"} :
          ans' = [ans EXCEPT ![a] = [v EXCEPT !.pc = q, !.sent = FALSE, !.ev = None, !.ready = FALSE]]
    BY DEF Subscribe
  <2> DEFINE r == [v EXCEPT !.pc = q, !.sent = FALSE, !.ev = None, !.ready = FALSE]
  <2>2. r \in Ans
    BY DEF Ans, Places
  <2>3. AnsKeeps(ans[a], r)
    BY DEF Ans, AnsKeeps, Idle
  <2> HIDE DEF r
  <2> QED
    BY <2>1, <2>2, <2>3, OneAns DEF r
<1> QED
  BY <1>1, <1>2

\* An answerer subscribes, or is refused.
LEMMA RecvOfferSteady ==
  ASSUME Inv, NEW a \in Answerers, RecvOffer(a)
  PROVE  Steady
<1>1. ans[a] \in Ans /\ ans \in [Answerers -> Ans] /\ AnsType /\ OperType /\ ans[a].pc \in Idle
  BY DEF Inv, AnsType, RecvOffer, Idle
<1>2. CASE Subscribe(a, ans[a])
  <2>1. OpersKeep /\ AllAnsKeep
    BY <1>1, <1>2, SubscribeKeeps
  <2> QED
    BY <2>1, Counted, Unmoved DEF RecvOffer, Inv, Steady
<1>3. CASE ans' = [ans EXCEPT ![a] = [@ EXCEPT !.pc = "over", !.ctx = TRUE]] /\ UNCHANGED oper
  <2> DEFINE r == [ans[a] EXCEPT !.pc = "over", !.ctx = TRUE]
  <2>1. r \in Ans
    BY <1>1 DEF Ans, Places
  <2>2. AnsKeeps(ans[a], r)
    BY <1>1 DEF Ans, AnsKeeps
  <2>3. ans' = [ans EXCEPT ![a] = r]
    BY <1>1, <1>3
  <2> HIDE DEF r
  <2>4. AllAnsKeep
    BY <1>1, <2>1, <2>2, <2>3, OneAns
  <2> QED
    BY <1>3, <2>4, Counted, Unmoved DEF RecvOffer, Inv, Steady
<1> QED
  BY <1>2, <1>3 DEF RecvOffer

\* The manager called the ready function.
LEMMA RecvReadySteady ==
  ASSUME Inv, NEW a \in Answerers, RecvReady(a)
  PROVE  Steady
<1> DEFINE r == [ans[a] EXCEPT !.pc = "find", !.ready = FALSE]
<1>1. ans[a] \in Ans /\ ans \in [Answerers -> Ans] /\ AnsType /\ <<>> \in Seq(AnswererViews)
  BY DEF Inv, AnsType
<1>2. r \in Ans
  BY <1>1 DEF Ans, Places
<1>3. AnsKeeps(ans[a], r)
  BY <1>1 DEF Ans, AnsKeeps, Idle, Busy, RecvReady
<1>4. ans' = [ans EXCEPT ![a] = r]
  BY <1>1 DEF RecvReady
<1> HIDE DEF r
<1>5. AllAnsKeep
  BY <1>1, <1>2, <1>3, <1>4, OneAns
<1> QED
  BY <1>5, Counted, Unmoved DEF RecvReady, Inv, Steady

\* RecvOffer returns an error.
LEMMA RecvFailSteady ==
  ASSUME Inv, NEW a \in Answerers, RecvFail(a)
  PROVE  Steady
<1> DEFINE r == [ans[a] EXCEPT !.pc = "over", !.ctx = TRUE, !.ev = None, !.sent = FALSE, !.ready = FALSE]
<1>1. ans[a] \in Ans /\ ans \in [Answerers -> Ans] /\ AnsType /\ <<>> \in Seq(AnswererViews)
  BY DEF Inv, AnsType
<1>2. r \in Ans
  BY <1>1 DEF Ans, Places
<1>3. AnsKeeps(ans[a], r)
  BY <1>1 DEF Ans, AnsKeeps, Idle, Busy, RecvFail, Subscribed
<1>4. ans' = [ans EXCEPT ![a] = r]
  BY <1>1 DEF RecvFail
<1> HIDE DEF r
<1>5. AllAnsKeep
  BY <1>1, <1>2, <1>3, <1>4, OneAns
<1> QED
  BY <1>5, Counted, Unmoved DEF RecvFail, Inv, Steady

\* Answer returns.
LEMMA AnswerReturnSteady ==
  ASSUME Inv, NEW a \in Answerers, AnswerReturn(a)
  PROVE  Steady
<1> DEFINE r == [ans[a] EXCEPT !.pc = "over", !.ctx = TRUE]
<1>1. ans[a] \in Ans /\ ans \in [Answerers -> Ans] /\ AnsType /\ <<>> \in Seq(AnswererViews)
  BY DEF Inv, AnsType
<1>2. r \in Ans
  BY <1>1 DEF Ans, Places
<1>3. AnsKeeps(ans[a], r)
  BY <1>1 DEF Ans, AnsKeeps, Idle, Busy, AnswerReturn
<1>4. ans' = [ans EXCEPT ![a] = r]
  BY <1>1 DEF AnswerReturn
<1> HIDE DEF r
<1>5. AllAnsKeep
  BY <1>1, <1>2, <1>3, <1>4, OneAns
<1> QED
  BY <1>5, Counted, Unmoved DEF AnswerReturn, Inv, Steady

\* The answerer's stream breaks.
LEMMA AnswererGoneSteady ==
  ASSUME Inv, NEW a \in Answerers, AnswererGone(a)
  PROVE  Steady
<1> DEFINE r == [ans[a] EXCEPT !.ctx = TRUE]
<1>1. ans[a] \in Ans /\ ans \in [Answerers -> Ans] /\ AnsType /\ <<>> \in Seq(AnswererViews)
  BY DEF Inv, AnsType
<1>2. r \in Ans
  BY <1>1 DEF Ans, Places
<1>3. AnsKeeps(ans[a], r)
  BY <1>1 DEF Ans, AnsKeeps, Idle, Busy, AnswererGone
<1>4. ans' = [ans EXCEPT ![a] = r]
  BY <1>1 DEF AnswererGone
<1> HIDE DEF r
<1>5. AllAnsKeep
  BY <1>1, <1>2, <1>3, <1>4, OneAns
<1> QED
  BY <1>5, Counted, Unmoved DEF AnswererGone, Inv, Steady

\* The context of an exchange is done.
LEMMA ExchangeDoneSteady ==
  ASSUME Inv, NEW a \in Answerers, ExchangeDone(a)
  PROVE  Steady
<1> DEFINE r == [ans[a] EXCEPT !.x = "end", !.xev = <<>>, !.lost = FALSE]
<1>1. ans[a] \in Ans /\ ans \in [Answerers -> Ans] /\ AnsType /\ <<>> \in Seq(AnswererViews)
  BY DEF Inv, AnsType
<1>p. ans[a].cur \in Calls /\ holder[ans[a].cur] = a /\ ans[a].pc \notin Idle \cup {"took"}
  BY <1>1 DEF ExchangeDone, Inv, HeldInv, Exchanging, Busy, Idle, Ans, Places
<1>2. r \in Ans
  BY <1>1, <1>p DEF Ans, Places
<1>3. AnsKeeps(ans[a], r)
  BY <1>1, <1>p DEF Ans, AnsKeeps, Idle, Busy, ExchangeDone
<1>4. ans' = [ans EXCEPT ![a] = r]
  BY <1>1 DEF ExchangeDone
<1> HIDE DEF r
<1>5. AllAnsKeep
  BY <1>1, <1>2, <1>3, <1>4, OneAns
<1>6. UNCHANGED <<doc, log>> \/ Wrote(ans[a].cur)
  <2>1. DocType
    BY DEF Inv
  <2>2. UNCHANGED <<doc, log>> \/ (Updates(ans[a].cur, {"aerr"}) /\ Live(ans[a].cur))
    BY <1>p, <2>1, ExchangeDoneEffect
  <2> QED
    BY <2>2 DEF Updates, Kept, Fields, Wrote, Said
<1> QED
  BY <1>5, <1>p, <1>6, Counted, Unmoved DEF ExchangeDone, Inv, Steady

\* The answerer is done.
LEMMA AnswererDoneSteady ==
  ASSUME Inv, NEW a \in Answerers, AnswererDone(a)
  PROVE  Steady
<1> DEFINE r == [ans[a] EXCEPT !.pc = IF @ = "exch" /\ Live(ans[a].cur) THEN "drain" ELSE "over",
                                  !.ctx = @ \/ ~(ans[a].pc = "exch" /\ Live(ans[a].cur))]
<1>1. ans[a] \in Ans /\ ans \in [Answerers -> Ans] /\ AnsType /\ <<>> \in Seq(AnswererViews)
  BY DEF Inv, AnsType
<1>p. ans[a].cur \in Calls /\ holder[ans[a].cur] = a /\ ans[a].pc \notin Idle \cup {"took"}
  BY <1>1 DEF AnswererDone, Inv, HeldInv, Exchanging, Busy, Idle, Ans, Places
<1>2. r \in Ans
  BY <1>1, <1>p DEF Ans, Places
<1>3. AnsKeeps(ans[a], r)
  BY <1>1, <1>p DEF Ans, AnsKeeps, Idle, Busy, AnswererDone
<1>4. ans' = [ans EXCEPT ![a] = r]
  BY <1>1 DEF AnswererDone
<1> HIDE DEF r
<1>5. AllAnsKeep
  BY <1>1, <1>2, <1>3, <1>4, OneAns
<1>6. UNCHANGED <<doc, log>> \/ Wrote(ans[a].cur)
  <2>1. DocType
    BY DEF Inv
  <2>2. UNCHANGED <<doc, log>> \/ (Updates(ans[a].cur, {"adone"}) /\ Live(ans[a].cur))
    BY <1>p, <2>1, AnswererDoneEffect
  <2> QED
    BY <2>2 DEF Updates, Kept, Fields, Wrote, Said
<1> QED
  BY <1>5, <1>p, <1>6, Counted, Unmoved DEF AnswererDone, Inv, Steady

\* The answerer responds, with an answer or an error.
LEMMA AnswererRespondSteady ==
  ASSUME Inv, NEW a \in Answerers, AnswererRespond(a)
  PROVE  Steady
<1>1. ans[a] \in Ans /\ ans \in [Answerers -> Ans] /\ AnsType /\ DocType /\ ans[a].pc = "exch"
  BY DEF Inv, AnsType, AnswererRespond
<1>2. ans[a].cur \in Calls /\ holder[ans[a].cur] = a /\ doc[ans[a].cur].answered
  <2>1. ans[a].cur \in Calls /\ holder[ans[a].cur] = a
    BY <1>1 DEF Inv, HeldInv, Busy
  <2> QED
    BY <2>1, MongoQueueAssumption DEF Inv, DocInv
<1> DEFINE c == ans[a].cur
           r == [ans[a] EXCEPT !.pc = "failed"]
<1>3. r \in Ans
  BY <1>1 DEF Ans, Places
<1>4. AnsKeeps(ans[a], r)
  BY <1>1 DEF Ans, AnsKeeps, Busy
<1>5. /\ Live(c)
      /\ \/ /\ Updates(c, {"said"}) /\ doc'[c].said = doc[c].said + 1
            /\ UNCHANGED <<ans, events>>
         \/ Updates(c, {"aerr"}) /\ Event /\ ans' = [ans EXCEPT ![a].pc = "failed"]
  BY <1>1, <1>2, RespondEffect
<1>6. UNCHANGED <<doc, log>> \/ Wrote(c)
  <2>1. ans[holder[c]].pc # "took" /\ doc[c].answered
    BY <1>1, <1>2
  <2> HIDE DEF c
  <2> QED
    BY <1>5, <2>1 DEF Updates, Kept, Fields, Wrote, Said
<1>7. UNCHANGED ans \/ ans' = [ans EXCEPT ![a] = r]
  BY <1>1, <1>5
<1>8. UNCHANGED events \/ Event
  BY <1>5
<1> HIDE DEF r, c
<1>9. AllAnsKeep
  BY <1>1, <1>3, <1>4, <1>7, OneAns, Unmoved DEF Inv
<1>10. c \in Calls
  BY <1>2 DEF c
<1> QED
  BY <1>6, <1>8, <1>9, <1>10, Counted, Unmoved DEF AnswererRespond, Inv, Steady

\* An answerer takes a call that nobody else has ...
Takes(a, c) ==
  /\ Take(a, c) /\ Live(c) /\ ~doc[c].answered /\ ans[a].pc \in Idle
  /\ UNCHANGED <<age, oper, caller, events>>

\* ... or waits for the event of one.
LEMMA RecvFindSteady ==
  ASSUME Inv, NEW a \in Answerers, RecvFind(a)
  PROVE  (\E c \in Calls : Takes(a, c)) \/ Steady
<1>1. ans[a] \in Ans /\ ans \in [Answerers -> Ans] /\ AnsType /\ ans[a].pc \in Idle
  BY DEF Inv, AnsType, RecvFind, Idle
<1>2. \/ \E c \in Calls : Takes(a, c)
      \/ ans' = [ans EXCEPT ![a].pc = "wait"] /\ UNCHANGED <<doc, log, holder>>
  BY <1>1 DEF RecvFind, Takes
<1>3. CASE ans' = [ans EXCEPT ![a].pc = "wait"] /\ UNCHANGED <<doc, log, holder>>
  <2> DEFINE r == [ans[a] EXCEPT !.pc = "wait"]
  <2>1. r \in Ans
    BY <1>1 DEF Ans, Places
  <2>2. AnsKeeps(ans[a], r)
    BY <1>1 DEF Ans, AnsKeeps, Idle
  <2>3. ans' = [ans EXCEPT ![a] = r]
    BY <1>1, <1>3
  <2> HIDE DEF r
  <2>4. AllAnsKeep
    BY <1>1, <2>1, <2>2, <2>3, OneAns
  <2> QED
    BY <1>3, <2>4, Counted, Unmoved DEF RecvFind, Inv, Steady
<1> QED
  BY <1>2, <1>3

\* The call of an event is taken, unless someone else has it.
LEMMA RecvTakeSteady ==
  ASSUME Inv, NEW a \in Answerers, RecvTake(a)
  PROVE  (\E c \in Calls : Takes(a, c)) \/ Steady
<1>1. ans[a] \in Ans /\ ans \in [Answerers -> Ans] /\ AnsType /\ OperType /\ ans[a].pc \in Idle /\ ans[a].ev # None
  BY DEF Inv, AnsType, RecvTake, Idle
<1>2. ans[a].ev \in Calls
  BY <1>1 DEF Ans
<1> DEFINE v == [ans[a] EXCEPT !.ctx = TRUE]
<1>3. \/ \E c \in Calls : Takes(a, c)
      \/ Subscribe(a, v) /\ UNCHANGED <<doc, log, holder>>
  BY <1>1, <1>2 DEF RecvTake, Takes
<1>4. v \in Ans /\ v.cur = ans[a].cur /\ v.cheard = ans[a].cheard /\ v.x = ans[a].x /\ v.xev = ans[a].xev /\ v.lost = ans[a].lost
  BY <1>1 DEF Ans
<1> HIDE DEF v
<1>5. CASE Subscribe(a, v) /\ UNCHANGED <<doc, log, holder>>
  <2>1. OpersKeep /\ AllAnsKeep
    BY <1>1, <1>4, <1>5, SubscribeKeeps
  <2> QED
    BY <1>5, <2>1, Counted, Unmoved DEF RecvTake, Inv, Steady
<1> QED
  BY <1>3, <1>5

----------------------------------------------------------------------------
(* The steps that are not steady. *)

\* The channels of the two sides: an event is taken from the front ...
LEMMA TailFacts ==
  ASSUME NEW S, NEW s \in Seq(S), s # <<>>
  PROVE  /\ Tail(s) \in Seq(S) /\ Head(s) \in S /\ 1 \in DOMAIN s /\ Head(s) = s[1]
         /\ Len(Tail(s)) = Len(s) - 1 /\ Len(s) \in Nat
         /\ \A i \in DOMAIN Tail(s) : i + 1 \in DOMAIN s /\ Tail(s)[i] = s[i + 1]
         /\ Tail(s) = <<>> => s[Len(s)] = Head(s)
         /\ Tail(s) # <<>> => Tail(s)[Len(Tail(s))] = s[Len(s)]
<1>1. /\ Tail(s) \in Seq(S) /\ Head(s) \in S /\ 1 \in DOMAIN s /\ Head(s) = s[1]
      /\ Len(Tail(s)) = Len(s) - 1 /\ Len(s) \in Nat
  OBVIOUS
<1>2. \A i \in DOMAIN Tail(s) : i + 1 \in DOMAIN s /\ Tail(s)[i] = s[i + 1]
  OBVIOUS
<1>3. Tail(s) = <<>> => s[Len(s)] = Head(s)
  <2>e. Len(<<>>) = 0
    OBVIOUS
  <2>0. Tail(s) = <<>> => Len(Tail(s)) = 0
    BY <2>e, Zenon
  <2>1. Tail(s) = <<>> => Len(s) = 1
    BY <1>1, <2>0
  <2> QED
    BY <1>1, <2>1
<1>4. Tail(s) # <<>> => Tail(s)[Len(Tail(s))] = s[Len(s)]
  <2>1. Tail(s) # <<>> => Len(Tail(s)) \in DOMAIN Tail(s)
    BY <1>1
  <2> QED
    BY <1>1, <1>2, <2>1
<1> QED
  BY <1>1, <1>2, <1>3, <1>4

\* ... and put at the end, unless the channel is full.
Notified(s, e, t) ==
  /\ Len(t) <= ExchangeCap
  /\ \A i \in DOMAIN t : t[i] = e \/ (i \in DOMAIN s /\ t[i] = s[i])
  /\ Len(s) # ExchangeCap => t # <<>> /\ t[Len(t)] = e

\* The non-blocking send of an event keeps a channel within its capacity, with the event
\* last unless the channel was full, when the event is dropped.
LEMMA NotifyFacts ==
  ASSUME NEW S, NEW s \in Seq(S), NEW e \in S, Len(s) <= ExchangeCap
  PROVE  Notify(s, e) \in Seq(S) /\ Notified(s, e, Notify(s, e))
<1> USE DEF Notified
<1>0. Len(s) \in Nat /\ ExchangeCap \in Nat
  BY MongoQueueAssumption
<1>1. CASE Len(s) < ExchangeCap
  <2>1. Notify(s, e) = Append(s, e)
    BY <1>1 DEF Notify
  <2>2. Append(s, e) \in Seq(S) /\ Len(Append(s, e)) = Len(s) + 1 /\ Append(s, e)[Len(s) + 1] = e
    OBVIOUS
  <2>3. \A i \in DOMAIN Append(s, e) : i = Len(s) + 1 \/ (i \in DOMAIN s /\ Append(s, e)[i] = s[i])
    OBVIOUS
  <2>4. Append(s, e) # <<>>
    OBVIOUS
  <2> QED
    BY <1>0, <1>1, <2>1, <2>2, <2>3, <2>4
<1>2. CASE Len(s) = ExchangeCap
  BY <1>0, <1>2 DEF Notify
<1> QED
  BY <1>0, <1>1, <1>2

\* A new call.
LEMMA InsertsEffect ==
  ASSUME Inv, NEW c \in Calls, Inserts(c)
  PROVE  /\ caller' \in [Calls -> Callers] /\ (\A b \in Calls \ {c} : caller'[b] = caller[b])
         /\ caller[c].pc = "inserting" /\ caller'[c].pc = "open"
         /\ caller'[c].heard = caller[c].heard /\ caller'[c].ev = caller[c].ev /\ caller'[c].lost = caller[c].lost
         /\ doc' \in [Calls -> Docs] /\ (\A b \in Calls \ {c} : doc'[b] = doc[b]) /\ doc'[c] = NewDoc
         /\ log' \in Seq(Entries) /\ Len(log) \in Nat /\ DOMAIN log = 1 .. Len(log) /\ Grows(c, "insert")
         /\ UNCHANGED <<age, oper, ans, holder, events>>
<1> DEFINE r == [caller[c] EXCEPT !.pc = "open"]
<1>1. caller[c] \in Callers /\ caller \in [Calls -> Callers]
  BY DEF Inv, CallerType
<1>2. r \in Callers /\ r.pc = "open" /\ r.heard = caller[c].heard /\ r.ev = caller[c].ev /\ r.lost = caller[c].lost
  BY <1>1 DEF Callers
<1>3. caller' = [caller EXCEPT ![c] = r]
  BY <1>1 DEF Inserts
<1> HIDE DEF r
<1>4. /\ doc' \in [Calls -> Docs] /\ (\A b \in Calls \ {c} : doc'[b] = doc[b]) /\ doc'[c] = NewDoc
      /\ log' \in Seq(Entries) /\ Len(log) \in Nat /\ DOMAIN log = 1 .. Len(log) /\ Grows(c, "insert")
  BY InsertEffect DEF Inv, Inserts
<1>5. caller' \in [Calls -> Callers] /\ (\A b \in Calls \ {c} : caller'[b] = caller[b]) /\ caller'[c] = r
  BY <1>1, <1>2, <1>3
<1> QED
  BY <1>2, <1>4, <1>5 DEF Inserts

\* The caller takes an event: it hears no more than was said, and as much as the
\* event says unless that ends the call.
LEMMA CallerEventEffect ==
  ASSUME Inv, NEW c \in Calls, CallerEvent(c)
  PROVE  /\ caller' \in [Calls -> Callers] /\ (\A b \in Calls \ {c} : caller'[b] = caller[b])
         /\ caller[c].pc = "open" /\ caller[c].ev # <<>> /\ caller[c].ev \in Seq(CallerViews)
         /\ caller[c].heard <= caller'[c].heard /\ caller'[c].heard <= doc[c].said
         /\ \/ caller'[c].pc = "over" /\ caller'[c].ev = <<>>
            \/ /\ caller'[c].pc = "open" /\ caller'[c].ev = Tail(caller[c].ev) /\ caller'[c].lost = caller[c].lost
               /\ caller'[c].heard >= Head(caller[c].ev).said /\ ~Head(caller[c].ev).adone /\ ~Head(caller[c].ev).aerr
               /\ UNCHANGED <<doc, log>>
         /\ UNCHANGED <<doc, log>> \/ (Updates(c, {"cerr"}) /\ Live(c))
         /\ UNCHANGED <<age, oper, ans, holder, events>>
<1> DEFINE d == Head(caller[c].ev)
<1>1. /\ caller[c] \in Callers /\ caller \in [Calls -> Callers] /\ caller[c].ev \in Seq(CallerViews)
      /\ caller[c].heard \in 0..MaxSaid /\ doc[c].said \in 0..MaxSaid /\ caller[c].lost \in BOOLEAN
      /\ caller[c].pc = "open" /\ caller[c].ev # <<>> /\ caller[c].heard <= doc[c].said
  BY DEF Inv, CallerType, Callers, DocType, Docs, CallerEvent, DocInv
<1>2. d \in CallerViews /\ Tail(caller[c].ev) \in Seq(CallerViews) /\ <<>> \in Seq(CallerViews) /\ d = caller[c].ev[1] /\ 1 \in DOMAIN caller[c].ev
  BY <1>1, TailFacts
<1>3. d.said \in 0..MaxSaid /\ d.said <= doc[c].said /\ d.aerr \in BOOLEAN /\ d.adone \in BOOLEAN
  BY <1>2 DEF CallerViews, Inv, DocInv
<1> HIDE DEF d
<1>4. PICK n \in IF d.aerr THEN {caller[c].heard} ELSE Fresh(c, d) :
        LET failed == d.aerr \/ n < d.said
            over == failed \/ d.adone
        IN  /\ caller' = [caller EXCEPT ![c].heard = n, ![c].pc = IF over THEN "over" ELSE @,
                                        ![c].ev = IF over THEN <<>> ELSE Tail(@), ![c].lost = @ /\ ~over]
            /\ IF failed THEN SendOfferError(c) ELSE UNCHANGED <<doc, log>>
  BY DEF CallerEvent, d
<1>5. n \in 0..MaxSaid /\ caller[c].heard <= n /\ n <= doc[c].said
  <2>1. CASE d.aerr
    BY <1>1, <1>4, <2>1
  <2>2. CASE ~d.aerr /\ SendDone(c)
    BY <1>1, <1>3, <1>4, <2>2, MongoQueueAssumption DEF Fresh
  <2>3. CASE ~d.aerr /\ ~SendDone(c)
    <3>1. n = Max({caller[c].heard, d.said})
      BY <1>4, <2>3 DEF Fresh
    <3>2. n \in {caller[c].heard, d.said} /\ caller[c].heard <= n
      <4>1. PICK m \in {caller[c].heard, d.said} : \A y \in {caller[c].heard, d.said} : m >= y
        BY <1>1, <1>3, MongoQueueAssumption
      <4> QED
        BY <1>1, <1>3, <3>1, <4>1, MongoQueueAssumption DEF Max
    <3> QED
      BY <1>1, <1>3, <3>2
  <2> QED
    BY <2>1, <2>2, <2>3
<1> DEFINE over == (d.aerr \/ n < d.said) \/ d.adone
           r == [caller[c] EXCEPT !.heard = n, !.pc = IF over THEN "over" ELSE @,
                                  !.ev = IF over THEN <<>> ELSE Tail(@), !.lost = @ /\ ~over]
<1>6. /\ r \in Callers /\ r.heard = n
      /\ over => r.pc = "over" /\ r.ev = <<>>
      /\ ~over => r.pc = "open" /\ r.ev = Tail(caller[c].ev) /\ r.lost = caller[c].lost
  <2> HIDE DEF over
  <2>1. over \in BOOLEAN
    BY <1>3 DEF over
  <2> QED
    BY <1>1, <1>2, <1>5, <2>1 DEF Callers
<1>7. caller' = [caller EXCEPT ![c] = r]
  BY <1>1, <1>4
<1>8. ~over => n >= d.said /\ ~d.adone /\ ~d.aerr /\ UNCHANGED <<doc, log>>
  BY <1>3, <1>4, <1>5
<1>9. UNCHANGED <<doc, log>> \/ (Updates(c, {"cerr"}) /\ Live(c))
  BY <1>4, ErrorEffect DEF Inv
<1> HIDE DEF r, over
<1>10. caller' \in [Calls -> Callers] /\ (\A b \in Calls \ {c} : caller'[b] = caller[b]) /\ caller'[c] = r
  BY <1>1, <1>6, <1>7
<1>11. UNCHANGED <<age, oper, ans, holder, events>>
  BY DEF CallerEvent
<1> QED
  BY <1>1, <1>5, <1>6, <1>8, <1>9, <1>10, <1>11 DEF d

\* The exchange takes an event: the answerer hears no more than was said.
LEMMA ExchangeEventEffect ==
  ASSUME Inv, NEW a \in Answerers, ExchangeEvent(a)
  PROVE  /\ ans' \in [Answerers -> Ans] /\ (\A b \in Answerers \ {a} : ans'[b] = ans[b])
         /\ ans[a].x = "run" /\ ans[a].xev # <<>> /\ ans[a].xev \in Seq(AnswererViews)
         /\ ans[a].cur \in Calls /\ holder[ans[a].cur] = a
         /\ ans'[a].pc = ans[a].pc /\ ans'[a].cur = ans[a].cur
         /\ ans[a].cheard <= ans'[a].cheard
         /\ ans'[a].cheard = ans[a].cheard \/ ans'[a].cheard <= doc[ans[a].cur].csaid
         /\ \/ ans'[a].x = "end" /\ ans'[a].xev = <<>>
            \/ /\ ans'[a].x = "run" /\ ans'[a].xev = Tail(ans[a].xev) /\ ans'[a].lost = ans[a].lost
               /\ ans'[a].cheard >= Head(ans[a].xev).csaid /\ ~Head(ans[a].xev).cdone /\ ~Head(ans[a].xev).cerr
         /\ UNCHANGED <<doc, log, age, oper, caller, holder, events>>
<1> DEFINE d == Head(ans[a].xev)
           over == d.cerr \/ d.cdone
           n == IF d.cerr THEN ans[a].cheard ELSE Hear(a, d)
           r == [ans[a] EXCEPT !.xev = IF over THEN <<>> ELSE Tail(@), !.cheard = n,
                               !.x = IF over THEN "end" ELSE @, !.lost = @ /\ ~over]
<1>1. /\ ans[a] \in Ans /\ ans \in [Answerers -> Ans] /\ ans[a].xev \in Seq(AnswererViews) /\ ans[a].cheard \in 0..MaxEvents
      /\ ans[a].x = "run" /\ ans[a].xev # <<>> /\ ans[a].lost \in BOOLEAN
  BY DEF Inv, AnsType, Ans, ExchangeEvent, Exchanging
<1>2. d \in AnswererViews /\ Tail(ans[a].xev) \in Seq(AnswererViews) /\ <<>> \in Seq(AnswererViews) /\ d = ans[a].xev[1] /\ 1 \in DOMAIN ans[a].xev
  BY <1>1, TailFacts
<1>3. ans[a].cur \in Calls /\ holder[ans[a].cur] = a
  BY <1>1 DEF Inv, HeldInv
<1>4. d.csaid \in 0..MaxEvents /\ d.csaid <= doc[ans[a].cur].csaid /\ d.cerr \in BOOLEAN /\ d.cdone \in BOOLEAN
  BY <1>2 DEF AnswererViews, Inv, HeldInv
<1>5. /\ n \in 0..MaxEvents /\ ans[a].cheard <= n /\ (n = ans[a].cheard \/ n <= doc[ans[a].cur].csaid)
      /\ ~d.cerr => n >= d.csaid
  <2> HIDE DEF d
  <2> QED
    BY <1>1, <1>4, MongoQueueAssumption DEF Hear
<1>6. /\ r \in Ans /\ r.pc = ans[a].pc /\ r.cur = ans[a].cur /\ r.cheard = n
      /\ over => r.x = "end" /\ r.xev = <<>>
      /\ ~over => r.x = "run" /\ r.xev = Tail(ans[a].xev) /\ r.lost = ans[a].lost
  <2> HIDE DEF over, n
  <2>1. over \in BOOLEAN
    BY <1>4 DEF over
  <2> QED
    BY <1>1, <1>2, <1>5, <2>1 DEF Ans, Places
<1>7. ans' = [ans EXCEPT ![a] = r]
  BY <1>1 DEF ExchangeEvent
<1>8. ~over => n >= d.csaid /\ ~d.cdone /\ ~d.cerr
  BY <1>4, <1>5
<1> HIDE DEF r, over, n
<1>9. ans' \in [Answerers -> Ans] /\ (\A b \in Answerers \ {a} : ans'[b] = ans[b]) /\ ans'[a] = r
  BY <1>1, <1>6, <1>7
<1>10. UNCHANGED <<doc, log, age, oper, caller, holder, events>>
  BY DEF ExchangeEvent
<1> QED
  BY <1>1, <1>3, <1>5, <1>6, <1>8, <1>9, <1>10

\* The exchange starts.
LEMMA RecvExchangeEffect ==
  ASSUME Inv, NEW a \in Answerers, RecvExchange(a)
  PROVE  /\ ans' \in [Answerers -> Ans] /\ (\A b \in Answerers \ {a} : ans'[b] = ans[b])
         /\ ans[a].pc = "took" /\ ans'[a].pc = "exch" /\ ans'[a].x = "run"
         /\ ans'[a].cur = ans[a].cur /\ ans'[a].cheard = ans[a].cheard /\ ans'[a].xev = ans[a].xev
         /\ ans'[a].lost = (doc[ans[a].cur].cerr /\ ~Unread(AnswererOf[a], ans[a].cur))
         /\ UNCHANGED <<doc, log, age, oper, caller, holder, events>>
<1> DEFINE missed == doc[ans[a].cur].cerr /\ ~Unread(AnswererOf[a], ans[a].cur)
           r == [ans[a] EXCEPT !.pc = "exch", !.x = "run", !.lost = missed]
<1>1. ans[a] \in Ans /\ ans \in [Answerers -> Ans]
  BY DEF Inv, AnsType
<1>0. missed \in BOOLEAN
  BY Zenon
<1>3. ans' = [ans EXCEPT ![a] = r]
  BY <1>1 DEF RecvExchange
<1> HIDE DEF missed
<1>2. /\ r \in Ans /\ r.pc = "exch" /\ r.x = "run" /\ r.cur = ans[a].cur /\ r.cheard = ans[a].cheard
      /\ r.xev = ans[a].xev /\ r.lost = missed
  BY <1>0, <1>1 DEF Ans, Places
<1> HIDE DEF r
<1>4. ans'[a].lost = missed
  BY <1>1, <1>2, <1>3
<1> QED
  BY <1>1, <1>2, <1>3, <1>4 DEF RecvExchange, missed

\* What each side reads of a document.
LEMMA ViewTypes ==
  ASSUME NEW d \in Docs
  PROVE  /\ CallerView(d) \in CallerViews /\ CallerView(d).said = d.said
         /\ AnswererView(d) \in AnswererViews /\ AnswererView(d).csaid = d.csaid /\ AnswererView(d).cdone = d.cdone
  BY DEF Docs, CallerView, CallerViews, AnswererView, AnswererViews

\* The event of an update goes to the caller of the call and to its answerer.
CallerTold(o, c) == CallerOf[c] = o /\ CallerSubscribed(c)
CallerNotified(r, s, d) ==
  s.pc = r.pc /\ s.heard = r.heard /\ s.ev = Notify(r.ev, CallerView(d)) /\ s.lost = (Len(r.ev) = ExchangeCap)
AnsTold(o, c, a) == AnswererOf[a] = o /\ Exchanging(a) /\ ans[a].cur = c
AnsNotified(r, s, d) ==
  /\ s.pc = r.pc /\ s.cur = r.cur /\ s.x = r.x /\ s.cheard = r.cheard
  /\ s.xev = Notify(r.xev, AnswererView(d)) /\ s.lost = (Len(r.xev) = ExchangeCap)
AnsSame(r, s) ==
  s.pc = r.pc /\ s.cur = r.cur /\ s.x = r.x /\ s.cheard = r.cheard /\ s.xev = r.xev /\ s.lost = r.lost

\* The event of a new call changes no exchange.
LEMMA NotifyAnswererEffect ==
  ASSUME AnsType, NEW o \in Operators, NEW c \in Calls, NotifyAnswerer(o, c)
  PROVE  ans' \in [Answerers -> Ans] /\ \A a \in Answerers : AnsSame(ans[a], ans'[a])
<1>1. ans \in [Answerers -> Ans]
  BY DEF AnsType
<1>2. CASE UNCHANGED ans
  BY <1>1, <1>2 DEF AnsSame
<1>3. ASSUME NEW a \in Answerers, ans' = [ans EXCEPT ![a].sent = TRUE, ![a].ev = c]
      PROVE  ans' \in [Answerers -> Ans] /\ \A b \in Answerers : AnsSame(ans[b], ans'[b])
  <2> DEFINE r == [ans[a] EXCEPT !.sent = TRUE, !.ev = c]
  <2>1. ans[a] \in Ans
    BY <1>1
  <2>2. r \in Ans
    BY <2>1 DEF Ans
  <2>3. AnsSame(ans[a], r)
    BY <2>1 DEF Ans, AnsSame
  <2>4. ans' = [ans EXCEPT ![a] = r]
    BY <1>1, <1>3
  <2>5. \A b \in Answerers : AnsSame(ans[b], ans[b])
    BY DEF AnsSame
  <2> HIDE DEF r
  <2> QED
    BY <1>1, <2>2, <2>3, <2>4, <2>5
<1>4. UNCHANGED ans \/ \E a \in Answerers : ans' = [ans EXCEPT ![a].sent = TRUE, ![a].ev = c]
  BY DEF NotifyAnswerer, WaitingFor
<1> QED
  BY <1>2, <1>3, <1>4

\* The event of an update.
LEMMA NotifyExchangeEffect ==
  ASSUME DocType, CallerType, AnsType, NEW o \in Operators, NEW c \in Calls, NotifyExchange(o, c, doc[c])
  PROVE  /\ caller' \in [Calls -> Callers] /\ ans' \in [Answerers -> Ans]
         /\ \A b \in Calls : IF b = c /\ CallerTold(o, c) THEN CallerNotified(caller[c], caller'[c], doc[c])
                             ELSE caller'[b] = caller[b]
         /\ \A a \in Answerers : IF AnsTold(o, c, a) THEN AnsNotified(ans[a], ans'[a], doc[c]) ELSE ans'[a] = ans[a]
<1>1. /\ doc[c] \in Docs /\ caller \in [Calls -> Callers] /\ ans \in [Answerers -> Ans]
      /\ caller[c].ev \in Seq(CallerViews) /\ Len(caller[c].ev) <= ExchangeCap
  BY DEF DocType, CallerType, AnsType, Callers
<1>2. CallerView(doc[c]) \in CallerViews /\ AnswererView(doc[c]) \in AnswererViews
  BY <1>1, ViewTypes
<1>3. /\ caller' \in [Calls -> Callers]
      /\ \A b \in Calls : IF b = c /\ CallerTold(o, c) THEN CallerNotified(caller[c], caller'[c], doc[c])
                          ELSE caller'[b] = caller[b]
  <2> DEFINE e == Notify(caller[c].ev, CallerView(doc[c]))
             l == Len(caller[c].ev) = ExchangeCap
             r == [caller[c] EXCEPT !.ev = e, !.lost = l]
  <2>1. e \in Seq(CallerViews) /\ l \in BOOLEAN
    BY <1>1, <1>2, NotifyFacts
  <2>2. caller' = IF CallerTold(o, c) THEN [caller EXCEPT ![c] = r] ELSE caller
    BY <1>1 DEF NotifyExchange, CallerTold
  <2>3. r \in Callers /\ r.pc = caller[c].pc /\ r.heard = caller[c].heard /\ r.ev = e /\ r.lost = l
    <3> HIDE DEF e, l
    <3> QED
      BY <1>1, <2>1 DEF Callers
  <2>4. CallerNotified(caller[c], r, doc[c])
    BY <2>3 DEF CallerNotified
  <2> HIDE DEF r
  <2> QED
    BY <1>1, <2>2, <2>3, <2>4
<1>4. /\ ans' \in [Answerers -> Ans]
      /\ \A a \in Answerers : IF AnsTold(o, c, a) THEN AnsNotified(ans[a], ans'[a], doc[c]) ELSE ans'[a] = ans[a]
  <2> DEFINE e(a) == Notify(ans[a].xev, AnswererView(doc[c]))
             l(a) == Len(ans[a].xev) = ExchangeCap
             r(a) == [ans[a] EXCEPT !.xev = e(a), !.lost = l(a)]
  <2>1. ans' = [a \in Answerers |-> IF AnsTold(o, c, a) THEN r(a) ELSE ans[a]]
    BY DEF NotifyExchange, AnsTold
  <2>2. ASSUME NEW a \in Answerers PROVE r(a) \in Ans /\ AnsNotified(ans[a], r(a), doc[c])
    <3>1. ans[a] \in Ans /\ ans[a].xev \in Seq(AnswererViews) /\ Len(ans[a].xev) <= ExchangeCap
      BY DEF AnsType, Ans
    <3>2. e(a) \in Seq(AnswererViews) /\ l(a) \in BOOLEAN
      BY <1>2, <3>1, NotifyFacts
    <3>3. /\ r(a) \in Ans /\ r(a).pc = ans[a].pc /\ r(a).cur = ans[a].cur /\ r(a).x = ans[a].x
          /\ r(a).cheard = ans[a].cheard /\ r(a).xev = e(a) /\ r(a).lost = l(a)
      <4> HIDE DEF e, l
      <4> QED
        BY <3>1, <3>2 DEF Ans, Places
    <3> QED
      BY <3>3 DEF AnsNotified
  <2> HIDE DEF r
  <2> QED
    BY <1>1, <2>1, <2>2
<1> QED
  BY <1>3, <1>4

\* The stream of o delivers the first event that it has not delivered.
Delivers(o, i) ==
  /\ Up(o) /\ i \in DOMAIN log /\ oper[o].last < i /\ (\A j \in Pending(o) : i <= j)
  /\ oper' \in [Operators -> Opers] /\ (\A p \in Operators \ {o} : oper'[p] = oper[p])
  /\ oper'[o].st = oper[o].st /\ oper'[o].last = i
  /\ caller' \in [Calls -> Callers] /\ ans' \in [Answerers -> Ans]
  /\ \/ /\ log[i].kind = "insert" /\ caller' = caller
        /\ \A a \in Answerers : AnsSame(ans[a], ans'[a])
     \/ /\ log[i].kind = "update"
        /\ \A c \in Calls : IF c = log[i].c /\ CallerTold(o, c) THEN CallerNotified(caller[c], caller'[c], doc[c])
                            ELSE caller'[c] = caller[c]
        /\ \A a \in Answerers : IF AnsTold(o, log[i].c, a) THEN AnsNotified(ans[a], ans'[a], doc[log[i].c])
                                ELSE ans'[a] = ans[a]
  /\ UNCHANGED <<doc, log, age, holder, events>>

\* An operator that reads its change stream reads the first change of the oplog that it has
\* not read, and hands it to the callers and answerers it is for.
LEMMA ProcessEffect ==
  ASSUME Inv, NEW o \in Operators, ProcessNextEvent(o)
  PROVE  \E i \in DOMAIN log : Delivers(o, i)
<1>1. /\ oper[o] \in Opers /\ oper \in [Operators -> Opers] /\ oper[o].last \in Nat
      /\ log \in Seq(Entries) /\ Len(log) \in Nat /\ DOMAIN log = 1 .. Len(log)
  BY DEF Inv, OperType, Opers, DocType
<1>2. Pending(o) \subseteq Nat /\ Pending(o) # {} /\ \A i \in Pending(o) : i <= Len(log) /\ oper[o].last < i /\ i \in DOMAIN log
  BY <1>1 DEF ProcessNextEvent, Pending
<1> DEFINE i == Min(Pending(o))
<1>3. i \in Pending(o) /\ (\A j \in Pending(o) : i <= j) /\ i \in Nat /\ i \in DOMAIN log /\ oper[o].last < i
  BY <1>2, MinOf
<1>4. oper' = [oper EXCEPT ![o].last = i] /\ Up(o)
  BY DEF ProcessNextEvent
<1>5. \/ log[i].kind = "insert" /\ NotifyAnswerer(o, log[i].c) /\ UNCHANGED caller
      \/ log[i].kind # "insert" /\ NotifyExchange(o, log[i].c, doc[log[i].c])
  BY DEF ProcessNextEvent
<1> HIDE DEF i
<1>6. log[i] \in Entries
  BY <1>1, <1>3
<1>7. log[i].c \in Calls /\ log[i].kind \in {"insert", "update"}
  BY <1>6 DEF Entries
<1>8. /\ oper' \in [Operators -> Opers] /\ (\A p \in Operators \ {o} : oper'[p] = oper[p])
      /\ oper'[o].st = oper[o].st /\ oper'[o].last = i
  <2> DEFINE r == [oper[o] EXCEPT !.last = i]
  <2>1. r \in Opers /\ r.last = i /\ r.st = oper[o].st
    BY <1>1, <1>3 DEF Opers
  <2>2. oper' = [oper EXCEPT ![o] = r]
    BY <1>1, <1>4
  <2> HIDE DEF r
  <2> QED
    BY <1>1, <2>1, <2>2
<1>9. UNCHANGED <<doc, log, age, holder, events>>
  BY DEF ProcessNextEvent
<1>10. CASE log[i].kind = "insert" /\ NotifyAnswerer(o, log[i].c) /\ UNCHANGED caller
  <2>1. ans' \in [Answerers -> Ans] /\ \A a \in Answerers : AnsSame(ans[a], ans'[a])
    BY <1>7, <1>10, NotifyAnswererEffect DEF Inv
  <2>2. caller' \in [Calls -> Callers]
    BY <1>10 DEF Inv, CallerType
  <2>3. Delivers(o, i)
    BY <1>3, <1>4, <1>8, <1>9, <1>10, <2>1, <2>2 DEF Delivers
  <2> QED
    BY <1>3, <2>3
<1>11. CASE log[i].kind # "insert" /\ NotifyExchange(o, log[i].c, doc[log[i].c])
  <2> DEFINE c == log[i].c
  <2>1. /\ caller' \in [Calls -> Callers] /\ ans' \in [Answerers -> Ans]
        /\ \A b \in Calls : IF b = c /\ CallerTold(o, c) THEN CallerNotified(caller[c], caller'[c], doc[c])
                            ELSE caller'[b] = caller[b]
        /\ \A a \in Answerers : IF AnsTold(o, c, a) THEN AnsNotified(ans[a], ans'[a], doc[c]) ELSE ans'[a] = ans[a]
    BY <1>7, <1>11, NotifyExchangeEffect DEF Inv
  <2>2. log[i].kind = "update"
    BY <1>7, <1>11
  <2>3. \A b \in Calls : IF b = log[i].c /\ CallerTold(o, b) THEN CallerNotified(caller[b], caller'[b], doc[b])
                         ELSE caller'[b] = caller[b]
    BY <2>1
  <2>4. Delivers(o, i)
    BY <1>3, <1>4, <1>8, <1>9, <2>1, <2>2, <2>3 DEF Delivers
  <2> QED
    BY <1>3, <2>4
<1> QED
  BY <1>5, <1>10, <1>11

----------------------------------------------------------------------------
(* Every step is one of these. *)

\* Every step is one of the kinds the invariant is shown to survive.
LEMMA Steps ==
  ASSUME Inv, [Next]_vars
  PROVE  \/ Steady
         \/ \E o \in Operators, i \in DOMAIN log : Delivers(o, i)
         \/ \E c \in Calls : CallTTL(c) \/ Inserts(c) \/ CallerEvent(c)
         \/ \E a \in Answerers, c \in Calls : Takes(a, c)
         \/ \E a \in Answerers : RecvExchange(a) \/ ExchangeEvent(a)
<1>1. UNCHANGED vars => Steady
  BY Counted, Unmoved DEF vars, Steady, Inv
<1>2. ASSUME NEW o \in Operators,
             \/ StreamFails(o) \/ ManagerTick(o) \/ ManagerWatch(o) \/ ManagerWatchFails(o) \/ ManagerTrack(o)
             \/ HandOver(o) \/ Close(o) \/ CloseReturns(o) \/ Crash(o)
      PROVE  Steady
  BY <1>2, StreamFailsSteady, ManagerTickSteady, ManagerWatchSteady, ManagerWatchFailsSteady, ManagerTrackSteady,
     HandOverSteady, CloseSteady, CloseReturnsSteady, CrashSteady, Zenon
<1>3. ASSUME NEW c \in Calls,
             \/ Grow(c) \/ SendOfferInit(c) \/ CallerReturn(c) \/ CallCancel(c) \/ SendOfferUpdate(c) \/ SendOfferDone(c)
      PROVE  Steady
  BY <1>3, GrowSteady, SendOfferInitSteady, CallerReturnSteady, CallCancelSteady, SendOfferUpdateSteady,
     SendOfferDoneSteady, Zenon
<1>4. ASSUME NEW a \in Answerers,
             \/ RecvOffer(a) \/ RecvReady(a) \/ RecvFail(a) \/ ExchangeDone(a) \/ AnswererRespond(a)
             \/ AnswererDone(a) \/ AnswerReturn(a) \/ AnswererGone(a)
      PROVE  Steady
  BY <1>4, RecvOfferSteady, RecvReadySteady, RecvFailSteady, ExchangeDoneSteady, AnswererRespondSteady,
     AnswererDoneSteady, AnswerReturnSteady, AnswererGoneSteady, Zenon
<1>5. ASSUME NEW a \in Answerers, RecvFind(a) \/ RecvTake(a)
      PROVE  (\E c \in Calls : Takes(a, c)) \/ Steady
  BY <1>5, RecvFindSteady, RecvTakeSteady, Zenon
<1>6. ASSUME NEW c \in Calls, InsertCall(c) PROVE Inserts(c) \/ Steady
  BY <1>6, InsertCallSteady, Zenon
<1>7. ASSUME NEW o \in Operators, ProcessNextEvent(o) PROVE \E i \in DOMAIN log : Delivers(o, i)
  BY <1>7, ProcessEffect, Zenon
<1> QED
  BY <1>1, <1>2, <1>3, <1>4, <1>5, <1>6, <1>7, Zenon DEF Next, SystemStep, EnvironmentStep

----------------------------------------------------------------------------
(* Each of them preserves the invariant. *)

\* What Inv says of one call, of one answerer and of the oplog.
CallInv(c) ==
  /\ caller[c].pc \in {"none", "inserting"} => doc[c] = NoDoc
  /\ caller[c].heard <= doc[c].said
  /\ doc[c].answered = (holder[c] # None)
  /\ ~doc[c].answered => doc[c].said = 0
  /\ doc[c].said = 0 => doc[c].csaid = 0 /\ ~doc[c].cdone
  /\ doc[c].csaid <= events
  /\ \A i \in DOMAIN caller[c].ev : caller[c].ev[i].said <= doc[c].said
HolderInv(c) ==
  holder[c] # None => /\ ans[holder[c]].cur = c /\ ans[holder[c]].pc \notin Idle
                      /\ doc[c].op = AnswererOf[holder[c]]
AnswererInv(a) ==
  /\ ans[a].pc \in Idle => ans[a].cheard = 0 /\ ans[a].x = "off"
  /\ ans[a].pc \in Busy \/ ans[a].x = "run" => ans[a].cur \in Calls /\ holder[ans[a].cur] = a
  /\ ans[a].pc = "took" => ans[a].x = "off" /\ ans[a].cheard = 0 /\ doc[ans[a].cur].said = 0
  /\ ans[a].x # "run" => ans[a].xev = <<>>
  /\ \A i \in DOMAIN ans[a].xev : ans[a].xev[i].csaid <= doc[ans[a].cur].csaid
\* The caller, or the answerer, misses something, and it is on its way.
Behind(c) ==
  /\ caller[c].pc = "open" /\ Live(c) /\ Up(CallerOf[c]) /\ ~caller[c].lost
  /\ doc[c].said > caller[c].heard \/ doc[c].adone \/ doc[c].aerr
OnItsWay(c) ==
  \/ \E i \in oper[CallerOf[c]].last + 1 .. Len(log) : log[i].c = c
  \/ caller[c].ev # <<>> /\ caller[c].ev[Len(caller[c].ev)] = CallerView(doc[c])
AnsBehind(a) ==
  /\ Exchanging(a) /\ Live(ans[a].cur) /\ Up(AnswererOf[a]) /\ ~ans[a].lost
  /\ doc[ans[a].cur].csaid > ans[a].cheard \/ doc[ans[a].cur].cdone \/ doc[ans[a].cur].cerr
AnsOnItsWay(a) ==
  \/ \E i \in oper[AnswererOf[a]].last + 1 .. Len(log) : log[i].c = ans[a].cur
  \/ ans[a].xev # <<>> /\ ans[a].xev[Len(ans[a].xev)] = AnswererView(doc[ans[a].cur])

\* The invariant's parts, one call or one answerer at a time ...
LEMMA Parts ==
  /\ DocInv <=> \A c \in Calls : CallInv(c)
  /\ HeldInv <=> (\A c \in Calls : HolderInv(c)) /\ (\A a \in Answerers : AnswererInv(a))
  /\ NoUpdateLost <=> (\A c \in Calls : Behind(c) => OnItsWay(c)) /\ (\A a \in Answerers : AnsBehind(a) => AnsOnItsWay(a))
<1>1. DocInv <=> \A c \in Calls : CallInv(c)
  BY Zenon DEF DocInv, CallInv
<1>2. HeldInv <=> (\A c \in Calls : HolderInv(c)) /\ (\A a \in Answerers : AnswererInv(a))
  BY Zenon DEF HeldInv, HolderInv, AnswererInv
<1>3. NoUpdateLost <=> (\A c \in Calls : Behind(c) => OnItsWay(c)) /\ (\A a \in Answerers : AnsBehind(a) => AnsOnItsWay(a))
  BY Zenon DEF NoUpdateLost, Unread, Behind, OnItsWay, AnsBehind, AnsOnItsWay
<1> QED
  BY <1>1, <1>2, <1>3

\* ... and the same after a step.
LEMMA PartsNext ==
  /\ DocInv' <=> \A c \in Calls : CallInv(c)'
  /\ HeldInv' <=> (\A c \in Calls : HolderInv(c)') /\ (\A a \in Answerers : AnswererInv(a)')
  /\ NoUpdateLost' <=> (\A c \in Calls : Behind(c)' => OnItsWay(c)') /\ (\A a \in Answerers : AnsBehind(a)' => AnsOnItsWay(a)')
<1>1. DocInv' <=> \A c \in Calls : CallInv(c)'
  BY Zenon DEF DocInv, CallInv
<1>2. HeldInv' <=> (\A c \in Calls : HolderInv(c)') /\ (\A a \in Answerers : AnswererInv(a)')
  BY Zenon DEF HeldInv, HolderInv, AnswererInv
<1>3. NoUpdateLost' <=> (\A c \in Calls : Behind(c)' => OnItsWay(c)') /\ (\A a \in Answerers : AnsBehind(a)' => AnsOnItsWay(a)')
  BY Zenon DEF NoUpdateLost, Unread, Behind, OnItsWay, AnsBehind, AnsOnItsWay
<1> QED
  BY <1>1, <1>2, <1>3

\* What the types say of the numbers and channels.
LEMMA Numbers ==
  ASSUME Inv
  PROVE  /\ log \in Seq(Entries) /\ Len(log) \in Nat /\ DOMAIN log = 1 .. Len(log) /\ events \in Nat
         /\ \A i \in DOMAIN log : log[i].c \in Calls /\ log[i].kind \in {"insert", "update"}
         /\ \A o \in Operators : oper[o].last \in Nat /\ oper[o].last <= Len(log)
         /\ \A c \in Calls : /\ doc[c] \in Docs /\ doc[c].said \in Nat /\ doc[c].csaid \in Nat /\ CallerOf[c] \in Operators
                             /\ caller[c].heard \in Nat /\ caller[c].ev \in Seq(CallerViews) /\ Len(caller[c].ev) <= ExchangeCap
         /\ \A a \in Answerers : /\ ans[a].cheard \in Nat /\ AnswererOf[a] \in Operators /\ ans[a].cur \in Calls \cup {None}
                                 /\ ans[a].xev \in Seq(AnswererViews) /\ Len(ans[a].xev) <= ExchangeCap
<1>1. log \in Seq(Entries) /\ Len(log) \in Nat /\ DOMAIN log = 1 .. Len(log) /\ events \in Nat
  BY MongoQueueAssumption DEF Inv, DocType
<1>2. ASSUME NEW i \in DOMAIN log PROVE log[i].c \in Calls /\ log[i].kind \in {"insert", "update"}
  <2>1. log[i] \in Entries
    BY <1>1
  <2> QED
    BY <2>1 DEF Entries
<1>3. \A o \in Operators : oper[o].last \in Nat /\ oper[o].last <= Len(log)
  BY DEF Inv, OperType, Opers
<1>4. ASSUME NEW c \in Calls
      PROVE  /\ doc[c] \in Docs /\ doc[c].said \in Nat /\ doc[c].csaid \in Nat /\ CallerOf[c] \in Operators
             /\ caller[c].heard \in Nat /\ caller[c].ev \in Seq(CallerViews) /\ Len(caller[c].ev) <= ExchangeCap
  BY MongoQueueAssumption DEF Inv, DocType, CallerType, Docs, Callers
<1>5. ASSUME NEW a \in Answerers
      PROVE  /\ ans[a].cheard \in Nat /\ AnswererOf[a] \in Operators /\ ans[a].cur \in Calls \cup {None}
             /\ ans[a].xev \in Seq(AnswererViews) /\ Len(ans[a].xev) <= ExchangeCap
  BY MongoQueueAssumption DEF Inv, AnsType, Ans
<1> QED
  BY <1>1, <1>2, <1>3, <1>4, <1>5

\* An empty channel is within its capacity.
LEMMA Cap == ExchangeCap \in Nat /\ Len(<<>>) = 0 /\ 0 <= ExchangeCap /\ DOMAIN <<>> = {}
  BY MongoQueueAssumption

\* Steady steps.
LEMMA SteadyTypes ==
  ASSUME Inv, Steady
  PROVE  DocType' /\ OperType' /\ CallerType' /\ AnsType'
<1>1. log' \in Seq(Entries) /\ Len(log') \in Nat /\ Len(log) \in Nat /\ Len(log) <= Len(log') /\ doc' \in [Calls -> Docs]
  <2>1. CASE UNCHANGED <<doc, log>>
    BY <2>1, Numbers DEF Inv, DocType
  <2>2. ASSUME NEW c \in Calls, Wrote(c)
        PROVE  log' \in Seq(Entries) /\ Len(log') \in Nat /\ Len(log) \in Nat /\ Len(log) <= Len(log') /\ doc' \in [Calls -> Docs]
    BY <2>2, Numbers DEF Wrote, Grows
  <2> QED
    BY <2>1, <2>2 DEF Steady
<1>2. DocType'
  BY <1>1 DEF DocType, Steady, Inv
<1>3. OperType'
  <2>1. ASSUME NEW o \in Operators PROVE oper'[o].last <= Len(log')
    <3>1. OperKeeps(oper[o], oper'[o]) /\ oper[o].last <= Len(log) /\ oper[o].last \in Nat /\ oper'[o].last \in Nat
      BY Numbers DEF Steady, OpersKeep, Opers
    <3> QED
      BY <1>1, <3>1 DEF OperKeeps
  <2> QED
    BY <2>1 DEF OperType, Steady, OpersKeep
<1>4. CallerType'
  <2>1. ASSUME NEW c \in Calls PROVE Len(caller'[c].ev) <= ExchangeCap
    BY Numbers, Cap DEF Steady, CallersKeep, CallerKeeps
  <2> QED
    BY <2>1 DEF CallerType, Steady, CallersKeep
<1>5. AnsType'
  <2>1. ASSUME NEW a \in Answerers PROVE Len(ans'[a].xev) <= ExchangeCap
    BY Numbers, Cap DEF Steady, AllAnsKeep, AnsKeeps
  <2> QED
    BY <2>1 DEF AnsType, Steady, AllAnsKeep
<1> QED
  BY <1>2, <1>3, <1>4, <1>5

\* A steady step changes a document little, and one it changes is the last change.
LEMMA SteadyDoc ==
  ASSUME Inv, Steady, NEW c \in Calls
  PROVE  /\ Said(c) /\ (doc'[c].cdone = doc[c].cdone \/ caller[c].heard > 0)
         /\ doc'[c].st = doc[c].st /\ doc'[c].answered = doc[c].answered /\ doc'[c].op = doc[c].op
         /\ doc'[c] = doc[c] \/ (Live(c) /\ Grows(c, "update"))
         /\ doc'[c] \in Docs /\ doc'[c].said \in Nat /\ doc'[c].csaid \in Nat
         /\ doc[c].said <= doc'[c].said /\ doc[c].csaid <= doc'[c].csaid
<1>1. /\ Said(c) /\ (doc'[c].cdone = doc[c].cdone \/ caller[c].heard > 0)
      /\ doc'[c].st = doc[c].st /\ doc'[c].answered = doc[c].answered /\ doc'[c].op = doc[c].op
      /\ doc'[c] = doc[c] \/ (Live(c) /\ Grows(c, "update"))
  <2>1. UNCHANGED <<doc, log>> => doc'[c] = doc[c]
    OBVIOUS
  <2>2. ASSUME NEW b \in Calls, Wrote(b), b # c
        PROVE  doc'[c] = doc[c]
    BY <2>2 DEF Wrote
  <2>3. doc'[c] = doc[c] => Said(c)
    BY DEF Said
  <2>4. ASSUME Wrote(c)
        PROVE  /\ Said(c) /\ (doc'[c].cdone = doc[c].cdone \/ caller[c].heard > 0)
               /\ doc'[c].st = doc[c].st /\ doc'[c].answered = doc[c].answered /\ doc'[c].op = doc[c].op
               /\ doc'[c] = doc[c] \/ (Live(c) /\ Grows(c, "update"))
    BY <2>4 DEF Wrote
  <2>5. Wrote(c) \/ doc'[c] = doc[c]
    BY <2>1, <2>2, Zenon DEF Steady
  <2> QED
    BY <2>3, <2>4, <2>5, Zenon
<1>2. doc'[c] \in Docs
  BY SteadyTypes DEF DocType
<1>3. doc'[c].said \in Nat /\ doc'[c].csaid \in Nat
  BY <1>2, MongoQueueAssumption DEF Docs
<1> QED
  BY <1>1, <1>2, <1>3, Numbers DEF Said

\* The oplog stays, or it has one more change, an update of a call whose document
\* is there; a document that changed is that of the last change.
LogGoesOn ==
  /\ Len(log') \in Nat /\ Len(log) \in Nat /\ Len(log) <= Len(log')
  /\ DOMAIN log' = 1 .. Len(log') /\ DOMAIN log = 1 .. Len(log)
  /\ \A i \in DOMAIN log : i \in DOMAIN log' /\ log'[i] = log[i]
  /\ \A i \in DOMAIN log' : \/ i \in DOMAIN log
                            \/ i = Len(log) + 1 /\ log'[i].kind = "update" /\ Live(log'[i].c) /\ log'[i].c \in Calls
  /\ \A c \in Calls : doc'[c] = doc[c] \/ (Len(log) + 1 \in DOMAIN log' /\ log'[Len(log) + 1].c = c)

\* A write to a document that exists adds one update to the oplog ...
LEMMA LogWritten ==
  ASSUME Inv, NEW c \in Calls, Live(c), Grows(c, "update"), \A b \in Calls \ {c} : doc'[b] = doc[b]
  PROVE  LogGoesOn
  BY Numbers DEF Grows, LogGoesOn

\* ... a step that writes nothing adds none ...
LEMMA LogStays ==
  ASSUME Inv, UNCHANGED <<doc, log>>
  PROVE  LogGoesOn
  BY Numbers DEF LogGoesOn

\* ... so a steady step adds at most one update, of a call that exists.
LEMMA SteadyLog ==
  ASSUME Inv, Steady
  PROVE  LogGoesOn
<1>1. ASSUME NEW c \in Calls, Wrote(c) PROVE LogGoesOn
  BY <1>1, LogWritten DEF Wrote
<1> QED
  BY <1>1, LogStays DEF Steady

\* What the oplog says goes on to hold ...
LEMMA LogGoesOnInv ==
  ASSUME Inv, LogGoesOn, \A c \in Calls : caller[c].pc \in {"open", "over"} => caller'[c].pc \in {"open", "over"}
  PROVE  LogInv'
<1> USE DEF LogGoesOn
<1>1. ASSUME NEW i \in DOMAIN log' PROVE caller'[log'[i].c].pc \in {"open", "over"}
  <2>2. ASSUME NEW c \in Calls, Live(c) PROVE caller[c].pc \in {"open", "over"}
    <3>1. CallInv(c) /\ caller[c].pc \in {"none", "inserting", "open", "over"}
      BY Parts DEF Inv, CallerType, Callers
    <3> QED
      BY <2>2, <3>1 DEF CallInv, Live, NoDoc
  <2>3. CASE i \in DOMAIN log
    BY <2>3, Numbers DEF Inv, LogInv
  <2>4. CASE i \notin DOMAIN log
    BY <2>2, <2>4
  <2> QED
    BY <2>3, <2>4
<1>2. ASSUME NEW i \in DOMAIN log', NEW j \in DOMAIN log', log'[i].c = log'[j].c, i < j
      PROVE  log'[j].kind = "update"
  <2>1. CASE j \notin DOMAIN log
    BY <2>1
  <2>2. CASE j \in DOMAIN log
    <3>1. i \in DOMAIN log
      BY <1>2, <2>2
    <3>2. log'[i] = log[i] /\ log'[j] = log[j]
      BY <2>2, <3>1
    <3> QED
      BY <1>2, <2>2, <3>1, <3>2 DEF Inv, LogInv
  <2> QED
    BY <2>1, <2>2
<1>3. ASSUME NEW i \in DOMAIN log', log'[i].kind = "insert", \A j \in DOMAIN log' : log'[j].c = log'[i].c => j <= i
      PROVE  LET d == doc'[log'[i].c] IN d.said = 0 /\ ~d.answered /\ ~d.adone /\ ~d.aerr
  <2>1. i \in DOMAIN log /\ log'[i] = log[i] /\ log[i].c \in Calls
    BY <1>3, Numbers
  <2>2. \A j \in DOMAIN log : log[j].c = log[i].c => j <= i
    BY <1>3, <2>1
  <2>3. LET d == doc[log[i].c] IN d.said = 0 /\ ~d.answered /\ ~d.adone /\ ~d.aerr
    BY <1>3, <2>1, <2>2 DEF Inv, LogInv
  <2>4. doc'[log[i].c] = doc[log[i].c]
    <3>1. SUFFICES ASSUME Len(log) + 1 \in DOMAIN log', log'[Len(log) + 1].c = log[i].c PROVE FALSE
      BY <2>1
    <3>2. Len(log) + 1 <= i
      BY <1>3, <2>1, <3>1
    <3>3. i \in 1 .. Len(log) /\ Len(log) \in Nat
      BY <2>1, Numbers
    <3> QED
      BY <3>2, <3>3
  <2> QED
    BY <2>1, <2>3, <2>4
<1> QED
  BY <1>1, <1>2, <1>3 DEF LogInv

\* ... and what an operator has not read stays unread.
LEMMA StillUnread ==
  ASSUME Inv, LogGoesOn, NEW o \in Operators, oper'[o].last = oper[o].last, NEW c,
         \E i \in oper[o].last + 1 .. Len(log) : log[i].c = c
  PROVE  \E i \in oper'[o].last + 1 .. Len(log') : log'[i].c = c
<1>1. PICK i \in oper[o].last + 1 .. Len(log) : log[i].c = c
  OBVIOUS
<1>2. i \in DOMAIN log /\ Len(log) <= Len(log') /\ Len(log) \in Nat /\ Len(log') \in Nat /\ oper[o].last \in Nat
  BY Numbers DEF LogGoesOn
<1>3. i \in oper'[o].last + 1 .. Len(log') /\ log'[i] = log[i]
  BY <1>2 DEF LogGoesOn
<1> QED
  BY <1>1, <1>3

\* A change that was just written is unread.
LEMMA NewIsUnread ==
  ASSUME Inv, LogGoesOn, NEW o \in Operators, oper'[o].last = oper[o].last, NEW c \in Calls, doc'[c] # doc[c]
  PROVE  \E i \in oper'[o].last + 1 .. Len(log') : log'[i].c = c
<1>1. Len(log) + 1 \in DOMAIN log' /\ log'[Len(log) + 1].c = c /\ DOMAIN log' = 1 .. Len(log') /\ Len(log') \in Nat /\ Len(log) \in Nat
  BY DEF LogGoesOn
<1>2. Len(log) + 1 \in oper'[o].last + 1 .. Len(log')
  BY <1>1, Numbers
<1> QED
  BY <1>1, <1>2

\* What the two sides said stays bounded by what they heard, in a steady step.
LEMMA SteadyCalls ==
  ASSUME Inv, Steady
  PROVE  DocInv'
<1>1. ASSUME NEW c \in Calls PROVE CallInv(c)'
  <2>1. CallInv(c) /\ CallerKeeps(caller[c], caller'[c]) /\ holder' = holder
    BY Parts DEF Inv, Steady, CallersKeep
  <2>2. /\ Said(c) /\ (doc'[c].cdone = doc[c].cdone \/ caller[c].heard > 0)
        /\ doc'[c].answered = doc[c].answered
        /\ doc'[c] = doc[c] \/ Live(c)
        /\ doc'[c].said \in Nat /\ doc'[c].csaid \in Nat /\ doc[c].said <= doc'[c].said
    BY SteadyDoc
  <2>3. /\ doc[c].said \in Nat /\ doc[c].csaid \in Nat /\ caller[c].heard \in Nat /\ caller'[c].heard = caller[c].heard
        /\ events \in Nat /\ events' \in Nat /\ events <= events'
    BY <2>1, Numbers, MongoQueueAssumption DEF CallerKeeps, Steady
  <2>4. caller'[c].pc \in {"none", "inserting"} => doc'[c] = NoDoc
    BY <2>1, <2>2 DEF CallInv, CallerKeeps, Live, NoDoc
  <2>5. caller'[c].heard <= doc'[c].said
    BY <2>1, <2>2, <2>3 DEF CallInv
  <2>6. doc'[c].answered = (holder'[c] # None) /\ (~doc'[c].answered => doc'[c].said = 0)
    BY <2>1, <2>2 DEF CallInv, Said
  <2>7. doc'[c].said = 0 => doc'[c].csaid = 0 /\ ~doc'[c].cdone
    BY <2>1, <2>2, <2>3 DEF CallInv, Said
  <2>8. doc'[c].csaid <= events'
    BY <2>1, <2>2, <2>3 DEF CallInv, Said
  <2>9. ASSUME NEW i \in DOMAIN caller'[c].ev PROVE caller'[c].ev[i].said <= doc'[c].said
    <3>1. caller'[c].ev = caller[c].ev
      BY <2>1, Cap DEF CallerKeeps
    <3>2. caller[c].ev[i] \in CallerViews
      BY <3>1, Numbers
    <3>3. caller[c].ev[i].said \in Nat
      BY <3>2 DEF CallerViews
    <3>4. caller[c].ev[i].said <= doc[c].said
      BY <2>1, <3>1 DEF CallInv
    <3> QED
      BY <2>2, <2>3, <3>1, <3>3, <3>4
  <2> QED
    BY <2>4, <2>5, <2>6, <2>7, <2>8, <2>9 DEF CallInv
<1> QED
  BY <1>1, PartsNext

\* In a steady step who holds a call goes on to hold it.
LEMMA SteadyHeld ==
  ASSUME Inv, Steady
  PROVE  HeldInv'
<1>0. holder' = holder /\ holder \in [Calls -> Answerers \cup {None}]
  BY DEF Steady, Inv, DocType
<1>1. ASSUME NEW c \in Calls PROVE HolderInv(c)'
  <2>1. HolderInv(c) /\ doc'[c].op = doc[c].op
    BY Parts, SteadyDoc DEF Inv
  <2>2. ASSUME holder[c] # None PROVE AnsKeeps(ans[holder[c]], ans'[holder[c]])
    BY <1>0, <2>2 DEF Steady, AllAnsKeep
  <2> QED
    BY <1>0, <2>1, <2>2 DEF HolderInv, AnsKeeps, Idle, Busy
<1>2. ASSUME NEW a \in Answerers PROVE AnswererInv(a)'
  <2>1. AnswererInv(a) /\ AnsKeeps(ans[a], ans'[a])
    BY Parts DEF Inv, Steady, AllAnsKeep
  <2>2. ans'[a].pc \in Idle => ans'[a].cheard = 0 /\ ans'[a].x = "off"
    BY <2>1 DEF AnswererInv, AnsKeeps, Idle
  <2>3. ans'[a].pc \in Busy \/ ans'[a].x = "run" => ans'[a].cur \in Calls /\ holder'[ans'[a].cur] = a
    BY <1>0, <2>1 DEF AnswererInv, AnsKeeps, Idle, Busy
  <2>4. ans'[a].pc = "took" => ans'[a].x = "off" /\ ans'[a].cheard = 0 /\ doc'[ans'[a].cur].said = 0
    <3> SUFFICES ASSUME ans'[a].pc = "took"
                 PROVE  ans'[a].x = "off" /\ ans'[a].cheard = 0 /\ doc'[ans'[a].cur].said = 0
      OBVIOUS
    <3>1. ans[a].pc = "took" /\ ans'[a].x = ans[a].x /\ ans'[a].cheard = ans[a].cheard /\ ans'[a].cur = ans[a].cur
      BY <2>1 DEF AnsKeeps, Idle
    <3>2. ans[a].cur \in Calls /\ holder[ans[a].cur] = a /\ ans[a].x = "off" /\ ans[a].cheard = 0 /\ doc[ans[a].cur].said = 0
      BY <2>1, <3>1 DEF AnswererInv, Busy
    <3>3. Said(ans[a].cur)
      BY <3>2, SteadyDoc
    <3> QED
      BY <3>1, <3>2, <3>3 DEF Said
  <2>5. ans'[a].x # "run" => ans'[a].xev = <<>>
    BY <2>1 DEF AnswererInv, AnsKeeps
  <2>6. ASSUME NEW i \in DOMAIN ans'[a].xev PROVE ans'[a].xev[i].csaid <= doc'[ans'[a].cur].csaid
    <3>1. ans'[a].xev = ans[a].xev /\ ans'[a].cur = ans[a].cur
      BY <2>1, Cap DEF AnsKeeps
    <3>2. ans[a].x = "run" /\ ans[a].cur \in Calls
      BY <2>1, <3>1, Cap DEF AnswererInv
    <3>3. ans[a].xev[i] \in AnswererViews
      BY <3>1, Numbers
    <3>4. ans[a].xev[i].csaid \in Nat
      BY <3>3 DEF AnswererViews
    <3>5. ans[a].xev[i].csaid <= doc[ans[a].cur].csaid
      BY <2>1, <3>1 DEF AnswererInv
    <3>6. /\ doc[ans[a].cur].csaid <= doc'[ans[a].cur].csaid /\ doc'[ans[a].cur].csaid \in Nat
          /\ doc[ans[a].cur].csaid \in Nat
      BY <3>2, SteadyDoc, Numbers
    <3> QED
      BY <3>1, <3>4, <3>5, <3>6
  <2> QED
    BY <2>2, <2>3, <2>4, <2>5, <2>6 DEF AnswererInv
<1> QED
  BY <1>1, <1>2, PartsNext

\* In a steady step the oplog goes on to be well formed.
LEMMA SteadyLogInv ==
  ASSUME Inv, Steady
  PROVE  LogInv'
<1>1. ASSUME NEW c \in Calls, caller[c].pc \in {"open", "over"} PROVE caller'[c].pc \in {"open", "over"}
  <2>1. CallerKeeps(caller[c], caller'[c])
    BY DEF Steady, CallersKeep
  <2> QED
    BY <1>1, <2>1 DEF CallerKeeps
<1> QED
  BY <1>1, SteadyLog, LogGoesOnInv

\* In a steady step an update that was on its way stays on its way, and one that is written
\* is in the oplog beyond what any stream has read.
LEMMA SteadyUpdates ==
  ASSUME Inv, Steady
  PROVE  NoUpdateLost'
<1>0. /\ OpersKeep
      /\ \A o \in Operators : oper[o].last \in Nat /\ oper[o].last <= Len(log)
      /\ \A o \in Operators : Up(o)' => Up(o) /\ oper'[o].last = oper[o].last
  BY Numbers DEF Steady, OpersKeep, OperKeeps, Up
<1>1. ASSUME NEW c \in Calls, Behind(c)' PROVE OnItsWay(c)'
  <2>1. CallerOf[c] \in Operators /\ CallerKeeps(caller[c], caller'[c]) /\ (Behind(c) => OnItsWay(c))
    BY Numbers, Parts DEF Steady, CallersKeep, Inv
  <2>2. Up(CallerOf[c]) /\ oper'[CallerOf[c]].last = oper[CallerOf[c]].last
    BY <1>0, <1>1, <2>1 DEF Behind
  <2>3. CASE doc'[c] # doc[c]
    BY <2>1, <2>2, <2>3, SteadyLog, NewIsUnread DEF OnItsWay
  <2>4. CASE doc'[c] = doc[c]
    <3>1. caller'[c].pc = "open" /\ caller[c].pc = "open" /\ caller'[c].ev = caller[c].ev /\ caller'[c].lost = caller[c].lost
          /\ caller'[c].heard = caller[c].heard
      BY <1>1, <2>1 DEF Behind, CallerKeeps
    <3>2. Behind(c)
      BY <1>1, <2>2, <2>4, <3>1 DEF Behind, Live
    <3>3. CASE \E i \in oper[CallerOf[c]].last + 1 .. Len(log) : log[i].c = c
      BY <2>1, <2>2, <3>3, SteadyLog, StillUnread DEF OnItsWay
    <3> QED
      BY <2>1, <2>4, <3>1, <3>2, <3>3 DEF OnItsWay
  <2> QED
    BY <2>3, <2>4
<1>2. ASSUME NEW a \in Answerers, AnsBehind(a)' PROVE AnsOnItsWay(a)'
  <2>1. AnswererOf[a] \in Operators /\ AnsKeeps(ans[a], ans'[a]) /\ (AnsBehind(a) => AnsOnItsWay(a)) /\ AnswererInv(a)
    BY Numbers, Parts DEF Steady, AllAnsKeep, Inv
  <2>2. Up(AnswererOf[a]) /\ oper'[AnswererOf[a]].last = oper[AnswererOf[a]].last
    BY <1>0, <1>2, <2>1 DEF AnsBehind
  <2> DEFINE c == ans[a].cur
  <2>5. /\ ans'[a].x = "run" /\ ans[a].x = "run" /\ ans'[a].xev = ans[a].xev /\ ans'[a].lost = ans[a].lost
        /\ ans'[a].cheard = ans[a].cheard /\ ans'[a].cur = c
    BY <1>2, <2>1 DEF AnsBehind, Exchanging, AnsKeeps
  <2>6. c \in Calls
    BY <2>1, <2>5 DEF AnswererInv
  <2> HIDE DEF c
  <2>3. CASE doc'[c] # doc[c]
    BY <2>1, <2>2, <2>3, <2>5, <2>6, SteadyLog, NewIsUnread DEF AnsOnItsWay
  <2>4. CASE doc'[c] = doc[c]
    <3>2. AnsBehind(a)
      BY <1>2, <2>2, <2>4, <2>5 DEF AnsBehind, Live, Exchanging, c
    <3>3. CASE \E i \in oper[AnswererOf[a]].last + 1 .. Len(log) : log[i].c = c
      BY <2>1, <2>2, <2>5, <3>3, SteadyLog, StillUnread DEF AnsOnItsWay
    <3> QED
      BY <2>1, <2>4, <2>5, <3>2, <3>3 DEF AnsOnItsWay, c
  <2> QED
    BY <2>3, <2>4
<1> QED
  BY <1>1, <1>2, PartsNext

\* Steady steps preserve the invariant.
LEMMA SteadyInv ==
  ASSUME Inv, Steady
  PROVE  Inv'
  BY SteadyTypes, SteadyCalls, SteadyHeld, SteadyLogInv, SteadyUpdates DEF Inv

\* A call that expires.
LEMMA ExpiresInv ==
  ASSUME Inv, NEW c \in Calls, CallTTL(c)
  PROVE  Inv'
<1>1. /\ doc' \in [Calls -> Docs] /\ (\A b \in Calls \ {c} : doc'[b] = doc[b])
      /\ Live(c) /\ doc'[c].st = "gone" /\ ~doc'[c].adone /\ ~doc'[c].aerr /\ ~doc'[c].cdone
      /\ doc'[c].answered = doc[c].answered /\ doc'[c].op = doc[c].op /\ doc'[c].said = doc[c].said /\ doc'[c].csaid = doc[c].csaid
      /\ UNCHANGED <<log, age, oper, caller, ans, holder, events>>
  BY TTLEffect DEF Inv, Kept, Fields
<1>2. DocType' /\ OperType' /\ CallerType' /\ AnsType'
  BY <1>1 DEF Inv, DocType, OperType, CallerType, AnsType
<1>3. DocInv'
  <2>1. ASSUME NEW b \in Calls PROVE CallInv(b)'
    <3>1. CallInv(b)
      BY Parts DEF Inv
    <3>2. CASE b # c
      BY <1>1, <3>1, <3>2 DEF CallInv
    <3>3. CASE b = c
      BY <1>1, <3>1, <3>3 DEF CallInv, Live, NoDoc
    <3> QED
      BY <3>2, <3>3
  <2> QED
    BY <2>1, PartsNext
<1>4. /\ \A b \in Calls : doc'[b].said = doc[b].said /\ doc'[b].csaid = doc[b].csaid /\ doc'[b].op = doc[b].op
  BY <1>1
<1>5. HeldInv'
  <2>1. ASSUME NEW b \in Calls PROVE HolderInv(b)'
    BY <1>1, <1>4, Parts DEF Inv, HolderInv
  <2>2. ASSUME NEW a \in Answerers PROVE AnswererInv(a)'
    <3>1. AnswererInv(a)
      BY Parts DEF Inv
    <3>2. ASSUME NEW i \in DOMAIN ans[a].xev PROVE ans[a].cur \in Calls
      BY <3>1, Cap DEF AnswererInv
    <3> QED
      BY <1>1, <1>4, <3>1, <3>2 DEF AnswererInv, Busy
  <2> QED
    BY <2>1, <2>2, PartsNext
<1>6. LogInv'
  <2>1. ASSUME NEW b \in Calls, LET d == doc[b] IN d.said = 0 /\ ~d.answered /\ ~d.adone /\ ~d.aerr
        PROVE  LET d == doc'[b] IN d.said = 0 /\ ~d.answered /\ ~d.adone /\ ~d.aerr
    BY <1>1, <2>1
  <2>2. LogInv /\ \A i \in DOMAIN log : log[i].c \in Calls
    BY Numbers DEF Inv
  <2> QED
    BY <1>1, <2>1, <2>2, Zenon DEF LogInv
<1>7. NoUpdateLost'
  <2>1. ASSUME NEW b \in Calls, Behind(b)' PROVE OnItsWay(b)'
    <3>1. b # c
      BY <1>1, <2>1 DEF Behind, Live
    <3>2. Behind(b) => OnItsWay(b)
      BY Parts DEF Inv
    <3> QED
      BY <1>1, <2>1, <3>1, <3>2 DEF Behind, OnItsWay, Live, Up
  <2>2. ASSUME NEW a \in Answerers, AnsBehind(a)' PROVE AnsOnItsWay(a)'
    <3>1. ans[a].cur # c
      BY <1>1, <2>2 DEF AnsBehind, Live
    <3>2. (AnsBehind(a) => AnsOnItsWay(a)) /\ AnswererInv(a)
      BY Parts DEF Inv
    <3>3. ans[a].cur \in Calls
      BY <1>1, <2>2, <3>2 DEF AnsBehind, Exchanging, AnswererInv
    <3> QED
      BY <1>1, <2>2, <3>1, <3>2, <3>3 DEF AnsBehind, AnsOnItsWay, Live, Up, Exchanging
  <2> QED
    BY <2>1, <2>2, PartsNext
<1> QED
  BY <1>2, <1>3, <1>5, <1>6, <1>7 DEF Inv

\* A new call.
LEMMA InsertsInv ==
  ASSUME Inv, NEW c \in Calls, Inserts(c)
  PROVE  Inv'
<1>1. /\ caller' \in [Calls -> Callers] /\ (\A b \in Calls \ {c} : caller'[b] = caller[b])
      /\ caller[c].pc = "inserting" /\ caller'[c].pc = "open"
      /\ caller'[c].heard = caller[c].heard /\ caller'[c].ev = caller[c].ev /\ caller'[c].lost = caller[c].lost
      /\ doc' \in [Calls -> Docs] /\ (\A b \in Calls \ {c} : doc'[b] = doc[b]) /\ doc'[c] = NewDoc
      /\ log' \in Seq(Entries) /\ Len(log) \in Nat /\ DOMAIN log = 1 .. Len(log) /\ Grows(c, "insert")
      /\ UNCHANGED <<age, oper, ans, holder, events>>
  BY InsertsEffect
<1>2. /\ Len(log') = Len(log) + 1 /\ DOMAIN log' = 1 .. Len(log') /\ Len(log') \in Nat
      /\ log'[Len(log) + 1].kind = "insert" /\ log'[Len(log) + 1].c = c
      /\ \A i \in DOMAIN log' : i = Len(log) + 1 \/ (i \in DOMAIN log /\ log'[i] = log[i])
  BY <1>1 DEF Grows
<1>3. CallInv(c) /\ doc[c] = NoDoc
  BY <1>1, Parts DEF Inv, CallInv
<1>4. holder[c] = None /\ NoDoc.said = 0
  <2>1. NoDoc.answered = FALSE /\ NoDoc.said = 0
    BY DEF NoDoc
  <2>2. doc[c].answered = (holder[c] # None)
    BY <1>3 DEF CallInv
  <2> QED
    BY <1>3, <2>1, <2>2
<1>5. /\ NewDoc.said = 0 /\ NewDoc.csaid = 0 /\ NewDoc.answered = FALSE /\ ~NewDoc.adone /\ ~NewDoc.aerr /\ ~NewDoc.cdone
  BY DEF NewDoc, NoDoc
<1>6. DocType' /\ CallerType' /\ AnsType'
  BY <1>1, Numbers DEF Inv, DocType, CallerType, AnsType
<1>7. OperType'
  BY <1>1, <1>2, Numbers DEF Inv, OperType
<1>8. ASSUME NEW a \in Answerers, ans[a].pc \in Busy \/ ans[a].x = "run" \/ DOMAIN ans[a].xev # {}
      PROVE  ans[a].cur \in Calls \ {c}
  <2>1. AnswererInv(a) /\ None # a
    BY Parts, MongoQueueAssumption DEF Inv
  <2> QED
    BY <1>4, <1>8, <2>1, Cap DEF AnswererInv
<1>9. DocInv'
  <2>1. ASSUME NEW b \in Calls PROVE CallInv(b)'
    <3>1. CASE b # c
      BY <1>1, <3>1, Parts DEF CallInv, Inv
    <3>2. CASE b = c
      <4>1. doc'[c].csaid <= events'
        BY <1>1, <1>5, Numbers
      <4>2. caller'[c].heard <= doc'[c].said /\ \A i \in DOMAIN caller'[c].ev : caller'[c].ev[i].said <= doc'[c].said
        BY <1>1, <1>3, <1>4, <1>5 DEF CallInv
      <4>3. doc'[c].answered = (holder'[c] # None)
        BY <1>1, <1>4, <1>5
      <4> QED
        BY <1>1, <1>5, <3>2, <4>1, <4>2, <4>3 DEF CallInv
    <3> QED
      BY <3>1, <3>2
  <2> QED
    BY <2>1, PartsNext
<1>10. HeldInv'
  <2>1. ASSUME NEW b \in Calls PROVE HolderInv(b)'
    BY <1>1, <1>4, Parts DEF Inv, HolderInv
  <2>2. ASSUME NEW a \in Answerers PROVE AnswererInv(a)'
    <3>1. AnswererInv(a)
      BY Parts DEF Inv
    <3> QED
      BY <1>1, <1>8, <3>1 DEF AnswererInv, Busy
  <2> QED
    BY <2>1, <2>2, PartsNext
<1>11. LogInv'
  <2>0. LogInv /\ \A i \in DOMAIN log : log[i].c \in Calls
    BY Numbers DEF Inv
  <2>1. \A i \in DOMAIN log : log[i].c # c
    BY <1>1, <2>0 DEF LogInv
  <2>2. ASSUME NEW i \in DOMAIN log' PROVE caller'[log'[i].c].pc \in {"open", "over"}
    BY <1>1, <1>2, <2>0, <2>1 DEF LogInv
  <2>3. ASSUME NEW i \in DOMAIN log', NEW j \in DOMAIN log', log'[i].c = log'[j].c, i < j
        PROVE  log'[j].kind = "update"
    <3>1. i \in DOMAIN log
      BY <1>1, <1>2, <2>3
    <3>2. j \in DOMAIN log
      BY <1>2, <2>1, <2>3, <3>1
    <3>3. log'[i] = log[i] /\ log'[j] = log[j]
      BY <1>1, <1>2, <3>1, <3>2
    <3> QED
      BY <2>0, <2>3, <3>1, <3>2, <3>3 DEF LogInv
  <2>4. ASSUME NEW i \in DOMAIN log', log'[i].kind = "insert", \A j \in DOMAIN log' : log'[j].c = log'[i].c => j <= i
        PROVE  LET d == doc'[log'[i].c] IN d.said = 0 /\ ~d.answered /\ ~d.adone /\ ~d.aerr
    <3>1. CASE i = Len(log) + 1
      BY <1>1, <1>2, <1>5, <3>1
    <3>2. CASE i \in DOMAIN log /\ log'[i] = log[i]
      <4>1. \A j \in DOMAIN log : j \in DOMAIN log' /\ log'[j] = log[j]
        BY <1>1, <1>2 DEF Grows
      <4>2. \A j \in DOMAIN log : log[j].c = log[i].c => j <= i
        BY <2>4, <3>2, <4>1
      <4> QED
        BY <1>1, <2>0, <2>1, <2>4, <3>2, <4>2 DEF LogInv
    <3> QED
      BY <1>2, <3>1, <3>2
  <2> QED
    BY <2>2, <2>3, <2>4 DEF LogInv
<1>12. ASSUME NEW o \in Operators, NEW b, \E i \in oper[o].last + 1 .. Len(log) : log[i].c = b
       PROVE  \E i \in oper'[o].last + 1 .. Len(log') : log'[i].c = b
  <2>1. PICK i \in oper[o].last + 1 .. Len(log) : log[i].c = b
    BY <1>12
  <2>2. oper' = oper /\ oper[o].last \in Nat /\ i \in oper[o].last + 1 .. Len(log') /\ i \in 1 .. Len(log)
    BY <1>1, <1>2, Numbers
  <2>3. log'[i] = log[i]
    BY <1>1, <2>2 DEF Grows
  <2> QED
    BY <2>1, <2>2, <2>3
<1>13. NoUpdateLost'
  <2>1. ASSUME NEW b \in Calls, Behind(b)' PROVE OnItsWay(b)'
    <3>1. b # c
      <4>1. b = c => caller[c].heard = 0 /\ doc'[c].said = 0 /\ ~doc'[c].adone /\ ~doc'[c].aerr
        BY <1>1, <1>3, <1>4, <1>5, Numbers DEF CallInv
      <4> QED
        BY <1>1, <2>1, <4>1 DEF Behind
    <3>2. (Behind(b) => OnItsWay(b)) /\ CallerOf[b] \in Operators
      BY Parts, Numbers DEF Inv
    <3> QED
      BY <1>1, <1>12, <2>1, <3>1, <3>2 DEF Behind, OnItsWay, Live, Up
  <2>2. ASSUME NEW a \in Answerers, AnsBehind(a)' PROVE AnsOnItsWay(a)'
    <3>1. ans[a].cur \in Calls \ {c}
      BY <1>1, <1>8, <2>2 DEF AnsBehind, Exchanging
    <3>2. (AnsBehind(a) => AnsOnItsWay(a)) /\ AnswererOf[a] \in Operators
      BY Parts, Numbers DEF Inv
    <3>3. doc'[ans[a].cur] = doc[ans[a].cur] /\ ans' = ans /\ oper' = oper
      BY <1>1, <3>1
    <3>4. AnsBehind(a)
      BY <2>2, <3>3 DEF AnsBehind, Live, Up, Exchanging
    <3>5. CASE \E i \in oper[AnswererOf[a]].last + 1 .. Len(log) : log[i].c = ans[a].cur
      BY <1>12, <3>2, <3>3, <3>5 DEF AnsOnItsWay
    <3> QED
      BY <3>2, <3>3, <3>4, <3>5 DEF AnsOnItsWay
  <2> QED
    BY <2>1, <2>2, PartsNext
<1> QED
  BY <1>6, <1>7, <1>9, <1>10, <1>11, <1>13 DEF Inv

\* The caller takes an event.
LEMMA CallerEventInv ==
  ASSUME Inv, NEW c \in Calls, CallerEvent(c)
  PROVE  Inv'
<1>1. /\ caller' \in [Calls -> Callers] /\ (\A b \in Calls \ {c} : caller'[b] = caller[b])
      /\ caller[c].pc = "open" /\ caller[c].ev # <<>> /\ caller[c].ev \in Seq(CallerViews)
      /\ caller[c].heard <= caller'[c].heard /\ caller'[c].heard <= doc[c].said
      /\ \/ caller'[c].pc = "over" /\ caller'[c].ev = <<>>
         \/ /\ caller'[c].pc = "open" /\ caller'[c].ev = Tail(caller[c].ev) /\ caller'[c].lost = caller[c].lost
            /\ caller'[c].heard >= Head(caller[c].ev).said /\ ~Head(caller[c].ev).adone /\ ~Head(caller[c].ev).aerr
            /\ UNCHANGED <<doc, log>>
      /\ UNCHANGED <<doc, log>> \/ (Updates(c, {"cerr"}) /\ Live(c))
      /\ UNCHANGED <<age, oper, ans, holder, events>>
  BY CallerEventEffect
<1>2. UNCHANGED <<doc, log>> \/ (Live(c) /\ Grows(c, "update") /\ \A b \in Calls \ {c} : doc'[b] = doc[b])
  BY <1>1 DEF Updates
<1>3. LogGoesOn
  BY <1>2, LogWritten, LogStays
<1>4. ASSUME NEW b \in Calls
      PROVE  /\ doc'[b].st = doc[b].st /\ doc'[b].answered = doc[b].answered /\ doc'[b].op = doc[b].op
             /\ doc'[b].said = doc[b].said /\ doc'[b].csaid = doc[b].csaid /\ doc'[b].cdone = doc[b].cdone
             /\ doc'[b].adone = doc[b].adone /\ doc'[b].aerr = doc[b].aerr
             /\ b # c => doc'[b] = doc[b]
  BY <1>1 DEF Updates, Kept, Fields
<1>5. DocType'
  BY <1>1 DEF Inv, DocType, Updates
<1>6. OperType' /\ AnsType'
  <2>1. \A o \in Operators : oper[o].last <= Len(log')
    BY <1>3, Numbers DEF LogGoesOn
  <2> QED
    BY <1>1, <2>1 DEF Inv, OperType, AnsType
<1>7. /\ caller'[c].ev \in Seq(CallerViews) /\ Len(caller'[c].ev) <= ExchangeCap
      /\ \A i \in DOMAIN caller'[c].ev : i + 1 \in DOMAIN caller[c].ev /\ caller'[c].ev[i] = caller[c].ev[i + 1]
  <2>1. CASE caller'[c].ev = <<>>
    BY <2>1, Cap
  <2>2. CASE caller'[c].ev = Tail(caller[c].ev)
    <3>1. /\ Tail(caller[c].ev) \in Seq(CallerViews) /\ Len(Tail(caller[c].ev)) = Len(caller[c].ev) - 1 /\ Len(caller[c].ev) \in Nat
          /\ \A i \in DOMAIN Tail(caller[c].ev) : i + 1 \in DOMAIN caller[c].ev /\ Tail(caller[c].ev)[i] = caller[c].ev[i + 1]
      BY <1>1, TailFacts
    <3> QED
      BY <2>2, <3>1, Numbers, Cap
  <2> QED
    BY <1>1, <2>1, <2>2
<1>8. CallerType'
  BY <1>1, <1>7 DEF Inv, CallerType
<1>9. DocInv'
  <2>1. ASSUME NEW b \in Calls PROVE CallInv(b)'
    <3>1. CallInv(b)
      BY Parts DEF Inv
    <3>2. CASE b # c
      BY <1>1, <1>4, <3>1, <3>2 DEF CallInv
    <3>3. CASE b = c
      BY <1>1, <1>4, <1>7, <3>1, <3>3 DEF CallInv
    <3> QED
      BY <3>2, <3>3
  <2> QED
    BY <2>1, PartsNext
<1>10. HeldInv'
  <2>1. ASSUME NEW b \in Calls PROVE HolderInv(b)'
    BY <1>1, <1>4, Parts DEF Inv, HolderInv
  <2>2. ASSUME NEW a \in Answerers PROVE AnswererInv(a)'
    <3>1. AnswererInv(a)
      BY Parts DEF Inv
    <3>2. ASSUME NEW i \in DOMAIN ans[a].xev PROVE ans[a].cur \in Calls
      BY <3>1, Cap DEF AnswererInv
    <3> QED
      BY <1>1, <1>4, <3>1, <3>2 DEF AnswererInv, Busy
  <2> QED
    BY <2>1, <2>2, PartsNext
<1>11. LogInv'
  <2>1. ASSUME NEW b \in Calls, caller[b].pc \in {"open", "over"} PROVE caller'[b].pc \in {"open", "over"}
    BY <1>1, <2>1
  <2> QED
    BY <1>3, <2>1, LogGoesOnInv
<1>12. NoUpdateLost'
  <2>1. ASSUME NEW b \in Calls, Behind(b)' PROVE OnItsWay(b)'
    <3>1. (Behind(b) => OnItsWay(b)) /\ CallerOf[b] \in Operators /\ oper' = oper
      BY <1>1, Parts, Numbers DEF Inv
    <3>2. CASE b # c
      <4>1. Behind(b) /\ doc'[b] = doc[b] /\ caller'[b] = caller[b]
        BY <1>1, <1>4, <2>1, <3>2 DEF Behind, Live, Up
      <4> QED
        BY <1>3, <3>1, <4>1, StillUnread DEF OnItsWay
    <3>3. CASE b = c
      <4>1. /\ caller'[c].pc = "open" /\ caller'[c].ev = Tail(caller[c].ev) /\ caller'[c].lost = caller[c].lost
            /\ caller'[c].heard >= Head(caller[c].ev).said /\ ~Head(caller[c].ev).adone /\ ~Head(caller[c].ev).aerr
            /\ UNCHANGED <<doc, log>>
        BY <1>1, <2>1, <3>3 DEF Behind
      <4>2. caller'[c].heard \in Nat /\ caller[c].heard \in Nat /\ doc[c].said \in Nat
        BY <1>1, Numbers DEF Callers
      <4>3. Behind(c)
        BY <1>1, <2>1, <3>3, <4>1, <4>2 DEF Behind, Live, Up
      <4>4. CASE \E i \in oper[CallerOf[c]].last + 1 .. Len(log) : log[i].c = c
        BY <1>3, <3>1, <3>3, <4>4, StillUnread DEF OnItsWay
      <4>5. CASE caller[c].ev[Len(caller[c].ev)] = CallerView(doc[c])
        <5>1. /\ Tail(caller[c].ev) = <<>> => caller[c].ev[Len(caller[c].ev)] = Head(caller[c].ev)
              /\ Tail(caller[c].ev) # <<>> => Tail(caller[c].ev)[Len(Tail(caller[c].ev))] = caller[c].ev[Len(caller[c].ev)]
          BY <1>1, TailFacts
        <5>2. Tail(caller[c].ev) # <<>>
          <6>1. SUFFICES ASSUME Head(caller[c].ev) = CallerView(doc[c]) PROVE FALSE
            BY <4>5, <5>1
          <6>2. doc[c].said <= caller'[c].heard /\ ~doc[c].adone /\ ~doc[c].aerr
            BY <4>1, <4>2, <6>1 DEF CallerView
          <6> QED
            BY <2>1, <3>3, <4>1, <4>2, <6>2 DEF Behind
        <5> QED
          BY <3>3, <4>1, <4>5, <5>1, <5>2 DEF OnItsWay
      <4> QED
        BY <3>1, <3>3, <4>3, <4>4, <4>5 DEF OnItsWay
    <3> QED
      BY <3>2, <3>3
  <2>2. ASSUME NEW a \in Answerers, AnsBehind(a)' PROVE AnsOnItsWay(a)'
    <3>1. (AnsBehind(a) => AnsOnItsWay(a)) /\ AnswererInv(a) /\ AnswererOf[a] \in Operators /\ oper' = oper /\ ans' = ans
      BY <1>1, Parts, Numbers DEF Inv
    <3>2. ans[a].cur \in Calls
      BY <2>2, <3>1 DEF AnsBehind, Exchanging, AnswererInv
    <3>3. CASE doc'[ans[a].cur] # doc[ans[a].cur]
      BY <1>3, <3>1, <3>2, <3>3, NewIsUnread DEF AnsOnItsWay
    <3>6. SUFFICES ASSUME doc'[ans[a].cur] = doc[ans[a].cur] PROVE AnsOnItsWay(a)'
      BY <3>3
    <3>5. AnsBehind(a)
      BY <2>2, <3>1, <3>2, <3>6 DEF AnsBehind, Live, Up, Exchanging
    <3>4. CASE \E i \in oper[AnswererOf[a]].last + 1 .. Len(log) : log[i].c = ans[a].cur
      <4>1. oper'[AnswererOf[a]].last = oper[AnswererOf[a]].last /\ AnswererOf[a] \in Operators
        BY <3>1
      <4>2. \E i \in oper'[AnswererOf[a]].last + 1 .. Len(log') : log'[i].c = ans[a].cur
        BY <1>3, <3>4, <4>1, StillUnread
      <4> QED
        BY <3>1, <4>2 DEF AnsOnItsWay
    <3> QED
      BY <3>1, <3>4, <3>5, <3>6 DEF AnsOnItsWay
  <2> QED
    BY <2>1, <2>2, PartsNext
<1> QED
  BY <1>5, <1>6, <1>8, <1>9, <1>10, <1>11, <1>12 DEF Inv

\* A call that nobody has is taken by an answerer that has none.
Taken(a, c) ==
  /\ Live(c) /\ doc[c].answered = FALSE /\ holder[c] = None /\ doc[c].said = 0 /\ doc[c].csaid = 0
  /\ doc'[c].answered = TRUE /\ doc'[c].op = AnswererOf[a] /\ doc' \in [Calls -> Docs]
  /\ \A b \in Calls : /\ doc'[b].st = doc[b].st /\ doc'[b].said = doc[b].said /\ doc'[b].csaid = doc[b].csaid
                      /\ doc'[b].cdone = doc[b].cdone
                      /\ b # c => doc'[b] = doc[b] /\ holder'[b] = holder[b]
  /\ holder' \in [Calls -> Answerers \cup {None}] /\ holder'[c] = a
  /\ log' \in Seq(Entries) /\ LogGoesOn
  /\ ans' \in [Answerers -> Ans] /\ (\A b \in Answerers \ {a} : ans'[b] = ans[b])
  /\ ans[a].pc \in Idle /\ ans'[a].pc = "took" /\ ans'[a].cur = c
  /\ ans'[a].x = "off" /\ ans'[a].xev = <<>> /\ ans'[a].cheard = 0
  /\ \A b \in Calls : holder[b] # a
  /\ UNCHANGED <<age, oper, caller, events>>

\* What findOneAndUpdate does when an answerer takes a call.
LEMMA TakesEffect ==
  ASSUME Inv, NEW a \in Answerers, NEW c \in Calls, Takes(a, c)
  PROVE  Taken(a, c)
<1>1. /\ Take(a, c) /\ Live(c) /\ ~doc[c].answered /\ ans[a].pc \in Idle
      /\ UNCHANGED <<age, oper, caller, events>>
  BY DEF Takes
<1>2. /\ Updates(c, {"answered", "op"}) /\ doc'[c].answered /\ doc'[c].op = AnswererOf[a]
      /\ holder' = [holder EXCEPT ![c] = a]
      /\ ans' \in [Answerers -> Ans] /\ (\A b \in Answerers \ {a} : ans'[b] = ans[b])
      /\ ans'[a].pc = "took" /\ ans'[a].cur = c
      /\ ans'[a].x = ans[a].x /\ ans'[a].xev = ans[a].xev /\ ans'[a].cheard = ans[a].cheard
  BY <1>1, TakeEffect DEF Inv
<1>3. CallInv(c) /\ AnswererInv(a) /\ (\A b \in Calls : HolderInv(b)) /\ a # None
  BY Parts, MongoQueueAssumption DEF Inv
<1>4. doc' \in [Calls -> Docs] /\ doc[c] \in Docs /\ log' \in Seq(Entries)
  BY <1>2, Numbers DEF Updates
<1>5. doc'[c].answered = TRUE /\ doc[c].answered = FALSE
  BY <1>1, <1>2, <1>4 DEF Docs
<1>6. holder[c] = None /\ doc[c].said = 0 /\ doc[c].csaid = 0
  BY <1>3, <1>5 DEF CallInv
<1>7. \A b \in Calls : holder[b] # a
  BY <1>1, <1>3 DEF HolderInv
<1>8. Grows(c, "update") /\ \A b \in Calls \ {c} : doc'[b] = doc[b]
  BY <1>2, <1>5 DEF Updates
<1>9. LogGoesOn
  BY <1>1, <1>8, LogWritten
<1>10. holder' \in [Calls -> Answerers \cup {None}] /\ holder'[c] = a /\ \A b \in Calls \ {c} : holder'[b] = holder[b]
  BY <1>2 DEF Inv, DocType
<1>11. ans'[a].x = "off" /\ ans'[a].xev = <<>> /\ ans'[a].cheard = 0
  BY <1>1, <1>2, <1>3 DEF AnswererInv
<1>12. \A b \in Calls : /\ doc'[b].st = doc[b].st /\ doc'[b].said = doc[b].said /\ doc'[b].csaid = doc[b].csaid
                        /\ doc'[b].cdone = doc[b].cdone
  BY <1>2, <1>8 DEF Updates, Kept, Fields
<1> QED
  BY <1>1, <1>2, <1>4, <1>5, <1>6, <1>7, <1>8, <1>9, <1>10, <1>11, <1>12 DEF Taken

\* An answerer that takes a call preserves the invariant.
LEMMA TakesInv ==
  ASSUME Inv, NEW a \in Answerers, NEW c \in Calls, Takes(a, c)
  PROVE  Inv'
<1>0. Taken(a, c)
  BY TakesEffect
<1>1. /\ Live(c) /\ holder[c] = None /\ doc[c].said = 0 /\ doc[c].csaid = 0 /\ doc[c].answered = FALSE
      /\ doc'[c].answered = TRUE /\ doc'[c].op = AnswererOf[a] /\ doc' \in [Calls -> Docs]
      /\ \A b \in Calls : /\ doc'[b].st = doc[b].st /\ doc'[b].said = doc[b].said /\ doc'[b].csaid = doc[b].csaid
                          /\ doc'[b].cdone = doc[b].cdone
                          /\ b # c => doc'[b] = doc[b] /\ holder'[b] = holder[b]
      /\ holder' \in [Calls -> Answerers \cup {None}] /\ holder'[c] = a
      /\ log' \in Seq(Entries) /\ LogGoesOn
      /\ UNCHANGED <<age, oper, caller, events>>
  BY <1>0 DEF Taken
<1>2. /\ ans' \in [Answerers -> Ans] /\ (\A b \in Answerers \ {a} : ans'[b] = ans[b])
      /\ ans[a].pc \in Idle /\ ans'[a].pc = "took" /\ ans'[a].cur = c
      /\ ans'[a].x = "off" /\ ans'[a].xev = <<>> /\ ans'[a].cheard = 0
      /\ \A b \in Calls : holder[b] # a
  BY <1>0 DEF Taken
<1>u. LogGoesOn /\ \A o \in Operators : oper'[o].last = oper[o].last
  BY <1>1
<1>3. DocType' /\ CallerType'
  BY <1>1 DEF Inv, DocType, CallerType
<1>4. OperType'
  <2>1. \A o \in Operators : oper[o].last <= Len(log')
    BY <1>1, Numbers DEF LogGoesOn
  <2> QED
    BY <1>1, <2>1 DEF Inv, OperType
<1>5. AnsType'
  BY <1>2, Cap, Numbers DEF AnsType
<1>6. a # None
  BY MongoQueueAssumption
<1>7. DocInv'
  <2>1. ASSUME NEW b \in Calls PROVE CallInv(b)'
    <3>1. CallInv(b)
      BY Parts DEF Inv
    <3>2. CASE b # c
      BY <1>1, <3>1, <3>2 DEF CallInv
    <3>3. CASE b = c
      <4>1. caller[c].pc \notin {"none", "inserting"}
        BY <1>1, <3>1, <3>3 DEF CallInv, Live, NoDoc
      <4>2. doc'[c].answered = (holder'[c] # None)
        BY <1>1, <1>6
      <4> QED
        BY <1>1, <3>1, <3>3, <4>1, <4>2 DEF CallInv
    <3> QED
      BY <3>2, <3>3
  <2> QED
    BY <2>1, PartsNext
<1>8. HeldInv'
  <2>1. ASSUME NEW b \in Calls PROVE HolderInv(b)'
    <3>1. CASE b = c
      BY <1>1, <1>2, <3>1 DEF HolderInv, Idle
    <3>2. CASE b # c
      <4>1. HolderInv(b) /\ holder'[b] = holder[b] /\ holder[b] \in Answerers \cup {None} /\ doc'[b] = doc[b]
        BY <1>1, <3>2, Parts DEF Inv, DocType
      <4>2. holder[b] # None => ans'[holder[b]] = ans[holder[b]]
        BY <1>2, <4>1
      <4> QED
        BY <4>1, <4>2 DEF HolderInv
    <3> QED
      BY <3>1, <3>2
  <2>2. ASSUME NEW b \in Answerers PROVE AnswererInv(b)'
    <3>1. CASE b = a
      BY <1>1, <1>2, <3>1, Cap DEF AnswererInv, Idle
    <3>2. CASE b # a
      <4>1. AnswererInv(b) /\ ans'[b] = ans[b] /\ b # None
        BY <1>2, <3>2, Parts, MongoQueueAssumption DEF Inv
      <4>2. ASSUME ans[b].pc \in Busy \/ ans[b].x = "run" \/ DOMAIN ans[b].xev # {}
            PROVE  /\ ans[b].cur \in Calls /\ holder[ans[b].cur] = b /\ holder'[ans[b].cur] = b
                   /\ doc'[ans[b].cur].said = doc[ans[b].cur].said /\ doc'[ans[b].cur].csaid = doc[ans[b].cur].csaid
        <5>1. ans[b].cur \in Calls /\ holder[ans[b].cur] = b
          BY <4>1, <4>2, Cap DEF AnswererInv
        <5>2. ans[b].cur # c
          BY <1>1, <4>1, <5>1
        <5> QED
          BY <1>1, <5>1, <5>2
      <4> QED
        BY <4>1, <4>2 DEF AnswererInv, Busy
    <3> QED
      BY <3>1, <3>2
  <2> QED
    BY <2>1, <2>2, PartsNext
<1>9. LogInv'
  BY <1>1, LogGoesOnInv
<1>10. NoUpdateLost'
  <2>1. ASSUME NEW b \in Calls, Behind(b)' PROVE OnItsWay(b)'
    <3>1. (Behind(b) => OnItsWay(b)) /\ CallerOf[b] \in Operators /\ oper' = oper /\ caller' = caller
      BY <1>1, Parts, Numbers DEF Inv
    <3>2. CASE b = c
      <4>1. doc'[b] # doc[b]
        BY <1>1, <3>2
      <4> QED
        BY <1>1, <3>1, <4>1, NewIsUnread DEF OnItsWay
    <3>3. CASE b # c
      <4>1. Behind(b) /\ doc'[b] = doc[b]
        BY <1>1, <2>1, <3>1, <3>3 DEF Behind, Live, Up
      <4>2. CASE \E i \in oper[CallerOf[b]].last + 1 .. Len(log) : log[i].c = b
        BY <1>u, <3>1, <4>2, StillUnread DEF OnItsWay
      <4> QED
        BY <3>1, <4>1, <4>2 DEF OnItsWay
    <3> QED
      BY <3>2, <3>3
  <2>2. ASSUME NEW b \in Answerers, AnsBehind(b)' PROVE AnsOnItsWay(b)'
    <3>1. b # a /\ ans'[b] = ans[b] /\ ans[b].x = "run"
      BY <1>2, <2>2 DEF AnsBehind, Exchanging
    <3>2. (AnsBehind(b) => AnsOnItsWay(b)) /\ AnswererInv(b) /\ AnswererOf[b] \in Operators /\ oper' = oper /\ b # None
      BY <1>1, Parts, Numbers, MongoQueueAssumption DEF Inv
    <3>3. ans[b].cur \in Calls /\ ans[b].cur # c
      BY <1>1, <3>1, <3>2 DEF AnswererInv
    <3>4. doc'[ans[b].cur] = doc[ans[b].cur]
      BY <1>1, <3>3
    <3>5. AnsBehind(b)
      BY <2>2, <3>1, <3>2, <3>4 DEF AnsBehind, Live, Up, Exchanging
    <3>6. CASE \E i \in oper[AnswererOf[b]].last + 1 .. Len(log) : log[i].c = ans[b].cur
      <4>1. \E i \in oper'[AnswererOf[b]].last + 1 .. Len(log') : log'[i].c = ans[b].cur
        BY <1>u, <3>2, <3>6, StillUnread
      <4> QED
        BY <3>1, <4>1 DEF AnsOnItsWay
    <3> QED
      BY <3>1, <3>2, <3>4, <3>5, <3>6 DEF AnsOnItsWay
  <2> QED
    BY <2>1, <2>2, PartsNext
<1> QED
  BY <1>3, <1>4, <1>5, <1>7, <1>8, <1>9, <1>10 DEF Inv

\* A step of one answerer, whose exchange is of the same call before and after.
LEMMA ExchangeInv ==
  ASSUME Inv, NEW a \in Answerers, ans' \in [Answerers -> Ans], \A b \in Answerers \ {a} : ans'[b] = ans[b],
         Len(ans'[a].xev) <= ExchangeCap, ans'[a].cur = ans[a].cur, ans[a].pc \notin Idle, ans'[a].pc \notin Idle,
         AnswererInv(a)', AnsBehind(a)' => AnsOnItsWay(a)',
         UNCHANGED <<doc, log, age, oper, caller, holder, events>>
  PROVE  Inv'
<1>1. DocType' /\ OperType' /\ CallerType'
  BY DEF Inv, DocType, OperType, CallerType
<1>2. AnsType'
  BY Numbers DEF AnsType
<1>3. DocInv'
  BY DEF Inv, DocInv
<1>4. LogInv'
  BY DEF Inv, LogInv
<1>5. HeldInv'
  <2>1. ASSUME NEW c \in Calls PROVE HolderInv(c)'
    <3>1. HolderInv(c) /\ holder[c] \in Answerers \cup {None}
      BY Parts DEF Inv, DocType
    <3> QED
      BY <3>1 DEF HolderInv
  <2>2. ASSUME NEW b \in Answerers PROVE AnswererInv(b)'
    <3>1. AnswererInv(b)
      BY Parts DEF Inv
    <3> QED
      BY <3>1 DEF AnswererInv
  <2> QED
    BY <2>1, <2>2, PartsNext
<1>6. NoUpdateLost'
  <2>1. ASSUME NEW c \in Calls, Behind(c)' PROVE OnItsWay(c)'
    <3>1. Behind(c) => OnItsWay(c)
      BY Parts DEF Inv
    <3> QED
      BY <2>1, <3>1 DEF Behind, OnItsWay, Live, Up
  <2>2. ASSUME NEW b \in Answerers, AnsBehind(b)' PROVE AnsOnItsWay(b)'
    <3>1. AnsBehind(b) => AnsOnItsWay(b)
      BY Parts DEF Inv
    <3>2. CASE b = a
      BY <2>2, <3>2
    <3>3. CASE b # a
      BY <2>2, <3>1, <3>3 DEF AnsBehind, AnsOnItsWay, Live, Up, Exchanging
    <3> QED
      BY <3>2, <3>3
  <2> QED
    BY <2>1, <2>2, PartsNext
<1> QED
  BY <1>1, <1>2, <1>3, <1>4, <1>5, <1>6 DEF Inv

\* The exchange starts: nothing was said before it listens, and a caller that has given up
\* is noted as missed unless the stream still has to deliver it.
LEMMA RecvExchangeInv ==
  ASSUME Inv, NEW a \in Answerers, RecvExchange(a)
  PROVE  Inv'
<1>1. /\ ans' \in [Answerers -> Ans] /\ (\A b \in Answerers \ {a} : ans'[b] = ans[b])
      /\ ans[a].pc = "took" /\ ans'[a].pc = "exch" /\ ans'[a].x = "run"
      /\ ans'[a].cur = ans[a].cur /\ ans'[a].cheard = ans[a].cheard /\ ans'[a].xev = ans[a].xev
      /\ ans'[a].lost = (doc[ans[a].cur].cerr /\ ~Unread(AnswererOf[a], ans[a].cur))
      /\ UNCHANGED <<doc, log, age, oper, caller, holder, events>>
  BY RecvExchangeEffect
<1>2. AnswererInv(a)
  BY Parts DEF Inv
<1>3. ans[a].cur \in Calls /\ holder[ans[a].cur] = a /\ ans[a].cheard = 0 /\ ans[a].xev = <<>> /\ doc[ans[a].cur].said = 0
  BY <1>1, <1>2 DEF AnswererInv, Busy
<1>4. doc[ans[a].cur].csaid = 0 /\ ~doc[ans[a].cur].cdone
  BY <1>3, Parts DEF Inv, CallInv
<1>5. ASSUME AnsBehind(a)' PROVE AnsOnItsWay(a)'
  <2>1. doc[ans[a].cur].cerr /\ ~ans'[a].lost
    BY <1>1, <1>3, <1>4, <1>5 DEF AnsBehind
  <2>2. Unread(AnswererOf[a], ans[a].cur)
    BY <1>1, <2>1
  <2> QED
    BY <1>1, <2>2 DEF Unread, AnsOnItsWay
<1>6. AnswererInv(a)'
  BY <1>1, <1>3, Cap DEF AnswererInv, Idle
<1>7. Len(ans'[a].xev) <= ExchangeCap /\ ans[a].pc \notin Idle /\ ans'[a].pc \notin Idle
  BY <1>1, <1>3, Cap DEF Idle
<1> QED
  BY <1>1, <1>5, <1>6, <1>7, ExchangeInv

\* The exchange takes an event.
LEMMA ExchangeEventInv ==
  ASSUME Inv, NEW a \in Answerers, ExchangeEvent(a)
  PROVE  Inv'
<1>1. /\ ans' \in [Answerers -> Ans] /\ (\A b \in Answerers \ {a} : ans'[b] = ans[b])
      /\ ans[a].x = "run" /\ ans[a].xev # <<>> /\ ans[a].xev \in Seq(AnswererViews)
      /\ ans[a].cur \in Calls /\ holder[ans[a].cur] = a
      /\ ans'[a].pc = ans[a].pc /\ ans'[a].cur = ans[a].cur
      /\ ans[a].cheard <= ans'[a].cheard
      /\ \/ ans'[a].x = "end" /\ ans'[a].xev = <<>>
         \/ /\ ans'[a].x = "run" /\ ans'[a].xev = Tail(ans[a].xev) /\ ans'[a].lost = ans[a].lost
            /\ ans'[a].cheard >= Head(ans[a].xev).csaid /\ ~Head(ans[a].xev).cdone /\ ~Head(ans[a].xev).cerr
      /\ UNCHANGED <<doc, log, age, oper, caller, holder, events>>
  BY ExchangeEventEffect
<1>2. AnswererInv(a) /\ (AnsBehind(a) => AnsOnItsWay(a))
  BY Parts DEF Inv
<1>3. ans[a].pc \notin Idle /\ ans[a].pc # "took"
  BY <1>1, <1>2 DEF AnswererInv
<1> DEFINE s == ans[a].xev
<1>4. /\ Tail(s) \in Seq(AnswererViews) /\ Len(Tail(s)) = Len(s) - 1 /\ Len(s) \in Nat
      /\ \A i \in DOMAIN Tail(s) : i + 1 \in DOMAIN s /\ Tail(s)[i] = s[i + 1]
      /\ Tail(s) = <<>> => s[Len(s)] = Head(s)
      /\ Tail(s) # <<>> => Tail(s)[Len(Tail(s))] = s[Len(s)]
  BY <1>1, TailFacts
<1>5. Len(ans'[a].xev) <= ExchangeCap
  <2>1. Len(s) <= ExchangeCap /\ ExchangeCap \in Nat
    BY Numbers, Cap
  <2>2. Len(Tail(s)) <= ExchangeCap
    BY <1>4, <2>1
  <2> QED
    BY <1>1, <2>2, Cap
<1>6. AnswererInv(a)'
  <2>1. ASSUME NEW i \in DOMAIN ans'[a].xev PROVE ans'[a].xev[i].csaid <= doc[ans[a].cur].csaid
    BY <1>1, <1>2, <1>4, Cap DEF AnswererInv
  <2> QED
    BY <1>1, <1>3, <2>1 DEF AnswererInv
<1>7. ASSUME AnsBehind(a)' PROVE AnsOnItsWay(a)'
  <2>1. /\ ans'[a].x = "run" /\ ans'[a].xev = Tail(s) /\ ans'[a].lost = ans[a].lost
        /\ ans'[a].cheard >= Head(s).csaid /\ ~Head(s).cdone /\ ~Head(s).cerr
    BY <1>1, <1>7 DEF AnsBehind, Exchanging
  <2>2. ans'[a].cheard \in Nat /\ ans[a].cheard \in Nat /\ doc[ans[a].cur].csaid \in Nat
    BY <1>1, Numbers DEF Ans
  <2>3. AnsBehind(a)
    BY <1>1, <1>7, <2>1, <2>2 DEF AnsBehind, Exchanging, Live, Up
  <2>4. CASE \E i \in oper[AnswererOf[a]].last + 1 .. Len(log) : log[i].c = ans[a].cur
    BY <1>1, <2>4 DEF AnsOnItsWay
  <2>5. CASE s[Len(s)] = AnswererView(doc[ans[a].cur])
    <3>1. Tail(s) # <<>>
      <4>1. SUFFICES ASSUME Head(s) = s[Len(s)] PROVE FALSE
        BY <1>4
      <4>2. doc[ans[a].cur].csaid <= ans'[a].cheard /\ ~doc[ans[a].cur].cdone /\ ~doc[ans[a].cur].cerr
        BY <2>1, <2>2, <2>5, <4>1 DEF AnswererView
      <4> QED
        BY <1>1, <1>7, <2>2, <4>2 DEF AnsBehind
    <3> QED
      BY <1>1, <1>4, <2>1, <2>5, <3>1 DEF AnsOnItsWay
  <2> QED
    BY <1>2, <2>3, <2>4, <2>5 DEF AnsOnItsWay
<1> QED
  BY <1>1, <1>3, <1>5, <1>6, <1>7, ExchangeInv

\* A change that the operator of a caller has not read is one its stream delivers; so
\* is an update that the operator of the answerer has not read.
LEMMA StreamReads ==
  ASSUME Inv, NEW o \in Operators, NEW c \in Calls, Live(c), NEW j \in oper[o].last + 1 .. Len(log), log[j].c = c,
         CallerOf[c] = o \/ (doc[c].op = o /\ log[j].kind = "update")
  PROVE  j \in Pending(o)
<1>1. NewDoc.st = "live"
  BY DEF NewDoc, NoDoc
<1>2. FullDocument(j).st = "live"
  BY <1>1 DEF FullDocument, Live
<1>3. log[j].kind = "update" => FullDocument(j) = doc[c]
  BY DEF FullDocument
<1>4. Matches(o, oper[o].cs, log[j].c, FullDocument(j))
  BY <1>2, <1>3 DEF Matches
<1> QED
  BY <1>4 DEF Pending

\* A change of a call that was made after its insert exists once the call has more
\* to tell than a new one, and it is an update.
LEMMA UpdateAfterInsert ==
  ASSUME Inv, NEW i \in DOMAIN log, log[i].kind = "insert",
         LET d == doc[log[i].c] IN d.answered \/ d.said > 0 \/ d.adone \/ d.aerr
  PROVE  \E j \in DOMAIN log : i < j /\ log[j].c = log[i].c /\ log[j].kind = "update"
<1>1. LogInv /\ DOMAIN log = 1 .. Len(log) /\ Len(log) \in Nat /\ doc[log[i].c].said \in Nat
  BY Numbers DEF Inv
<1>2. ~(\A j \in DOMAIN log : log[j].c = log[i].c => j <= i)
  BY <1>1 DEF LogInv
<1>3. PICK j \in DOMAIN log : log[j].c = log[i].c /\ ~(j <= i)
  BY <1>2
<1>4. i < j
  BY <1>1, <1>3
<1> QED
  BY <1>1, <1>3, <1>4 DEF LogInv

\* An event is delivered.
LEMMA DeliversInv ==
  ASSUME Inv, NEW o \in Operators, NEW i \in DOMAIN log, Delivers(o, i)
  PROVE  Inv'
<1>1. /\ Up(o) /\ oper[o].last < i /\ (\A j \in Pending(o) : i <= j)
      /\ oper' \in [Operators -> Opers] /\ (\A p \in Operators \ {o} : oper'[p] = oper[p])
      /\ oper'[o].st = oper[o].st /\ oper'[o].last = i
      /\ caller' \in [Calls -> Callers] /\ ans' \in [Answerers -> Ans]
      /\ UNCHANGED <<doc, log, age, holder, events>>
  BY DEF Delivers
<1> DEFINE c == log[i].c
<1>2. c \in Calls /\ doc[c] \in Docs /\ i \in Nat /\ i <= Len(log) /\ Len(log) \in Nat
  BY Numbers
<1>3. ASSUME NEW b \in Calls
      PROVE  \/ caller'[b] = caller[b] /\ ~(log[i].kind = "update" /\ b = c /\ CallerTold(o, b))
             \/ log[i].kind = "update" /\ b = c /\ CallerTold(o, b) /\ CallerNotified(caller[b], caller'[b], doc[b])
  BY DEF Delivers
<1>4. ASSUME NEW a \in Answerers
      PROVE  \/ AnsSame(ans[a], ans'[a]) /\ ~(log[i].kind = "update" /\ AnsTold(o, c, a))
             \/ log[i].kind = "update" /\ AnsTold(o, c, a) /\ AnsNotified(ans[a], ans'[a], doc[c])
  BY DEF Delivers, AnsSame
<1> HIDE DEF c
<1>5. ASSUME NEW b \in Calls
      PROVE  /\ caller'[b].pc = caller[b].pc /\ caller'[b].heard = caller[b].heard /\ Len(caller'[b].ev) <= ExchangeCap
             /\ \A k \in DOMAIN caller'[b].ev :
                  caller'[b].ev[k].said = doc[b].said \/ (k \in DOMAIN caller[b].ev /\ caller'[b].ev[k] = caller[b].ev[k])
             /\ \/ caller'[b].ev = caller[b].ev /\ caller'[b].lost = caller[b].lost
                   /\ ~(log[i].kind = "update" /\ b = c /\ CallerTold(o, b))
                \/ caller'[b].lost
                \/ caller'[b].ev # <<>> /\ caller'[b].ev[Len(caller'[b].ev)] = CallerView(doc[b])
  <2>1. caller[b].ev \in Seq(CallerViews) /\ Len(caller[b].ev) <= ExchangeCap /\ doc[b] \in Docs
    BY Numbers
  <2>2. CASE caller'[b] = caller[b] /\ ~(log[i].kind = "update" /\ b = c /\ CallerTold(o, b))
    BY <2>1, <2>2
  <2>3. CASE CallerNotified(caller[b], caller'[b], doc[b])
    <3> DEFINE e == CallerView(doc[b])
    <3>1. e \in CallerViews /\ e.said = doc[b].said
      BY <2>1, ViewTypes
    <3> HIDE DEF e
    <3>2. Notified(caller[b].ev, e, Notify(caller[b].ev, e))
      BY <2>1, <3>1, NotifyFacts
    <3>3. /\ caller'[b].pc = caller[b].pc /\ caller'[b].heard = caller[b].heard
          /\ caller'[b].ev = Notify(caller[b].ev, e) /\ caller'[b].lost = (Len(caller[b].ev) = ExchangeCap)
      BY <2>3 DEF CallerNotified, e
    <3> QED
      BY <3>1, <3>2, <3>3 DEF e, Notified
  <2> QED
    BY <1>3, <2>2, <2>3
<1>6. ASSUME NEW a \in Answerers
      PROVE  /\ ans'[a].pc = ans[a].pc /\ ans'[a].cur = ans[a].cur /\ ans'[a].x = ans[a].x /\ ans'[a].cheard = ans[a].cheard
             /\ Len(ans'[a].xev) <= ExchangeCap /\ (ans'[a].xev = ans[a].xev \/ ans[a].x = "run")
             /\ \A k \in DOMAIN ans'[a].xev : \/ ans'[a].xev[k].csaid = doc[ans[a].cur].csaid
                                              \/ k \in DOMAIN ans[a].xev /\ ans'[a].xev[k] = ans[a].xev[k]
             /\ \/ ans'[a].xev = ans[a].xev /\ ans'[a].lost = ans[a].lost /\ ~(log[i].kind = "update" /\ AnsTold(o, c, a))
                \/ ans'[a].lost
                \/ ans'[a].xev # <<>> /\ ans'[a].xev[Len(ans'[a].xev)] = AnswererView(doc[ans[a].cur])
  <2>1. ans[a].xev \in Seq(AnswererViews) /\ Len(ans[a].xev) <= ExchangeCap
    BY Numbers
  <2>2. CASE AnsSame(ans[a], ans'[a]) /\ ~(log[i].kind = "update" /\ AnsTold(o, c, a))
    BY <2>1, <2>2 DEF AnsSame
  <2>3. CASE AnsTold(o, c, a) /\ AnsNotified(ans[a], ans'[a], doc[c])
    <3> DEFINE e == AnswererView(doc[c])
    <3>1. e \in AnswererViews /\ e.csaid = doc[c].csaid
      BY <1>2, ViewTypes
    <3> HIDE DEF e
    <3>2. Notified(ans[a].xev, e, Notify(ans[a].xev, e))
      BY <2>1, <3>1, NotifyFacts
    <3>3. /\ ans'[a].pc = ans[a].pc /\ ans'[a].cur = ans[a].cur /\ ans'[a].x = ans[a].x /\ ans'[a].cheard = ans[a].cheard
          /\ ans'[a].xev = Notify(ans[a].xev, e) /\ ans'[a].lost = (Len(ans[a].xev) = ExchangeCap)
      BY <2>3 DEF AnsNotified, e
    <3>4. ans[a].cur = c /\ ans[a].x = "run"
      BY <2>3 DEF AnsTold, Exchanging
    <3> QED
      BY <3>1, <3>2, <3>3, <3>4 DEF e, Notified
  <2> QED
    BY <1>4, <2>2, <2>3
<1>7. DocType' /\ OperType' /\ CallerType' /\ AnsType'
  <2>1. DocType'
    BY <1>1 DEF Inv, DocType
  <2>2. OperType'
    <3>1. ASSUME NEW p \in Operators PROVE oper'[p].last <= Len(log)
      BY <1>1, <1>2, Numbers
    <3> QED
      BY <1>1, <3>1 DEF OperType
  <2>3. CallerType'
    BY <1>1, <1>5 DEF CallerType
  <2>4. AnsType'
    BY <1>1, <1>6 DEF AnsType
  <2> QED
    BY <2>1, <2>2, <2>3, <2>4
<1>8. DocInv'
  <2>1. ASSUME NEW b \in Calls PROVE CallInv(b)'
    <3>1. CallInv(b) /\ doc[b].said \in Nat
      BY Parts, Numbers DEF Inv
    <3>2. ASSUME NEW k \in DOMAIN caller'[b].ev PROVE caller'[b].ev[k].said <= doc[b].said
      BY <1>5, <3>1 DEF CallInv
    <3> QED
      BY <1>1, <1>5, <3>1, <3>2 DEF CallInv
  <2> QED
    BY <2>1, PartsNext
<1>9. HeldInv'
  <2>1. ASSUME NEW b \in Calls PROVE HolderInv(b)'
    <3>1. HolderInv(b) /\ holder[b] \in Answerers \cup {None}
      BY Parts DEF Inv, DocType
    <3> QED
      BY <1>1, <1>6, <3>1 DEF HolderInv
  <2>2. ASSUME NEW a \in Answerers PROVE AnswererInv(a)'
    <3>1. AnswererInv(a)
      BY Parts DEF Inv
    <3>2. ASSUME NEW k \in DOMAIN ans'[a].xev PROVE ans'[a].xev[k].csaid <= doc[ans[a].cur].csaid
      <4>1. CASE k \in DOMAIN ans[a].xev /\ ans'[a].xev[k] = ans[a].xev[k]
        BY <3>1, <4>1 DEF AnswererInv
      <4>2. CASE ans'[a].xev[k].csaid = doc[ans[a].cur].csaid
        <5>1. ans[a].cur \in Calls
          BY <1>6, <3>1, <3>2, Cap DEF AnswererInv
        <5> QED
          BY <4>2, <5>1, Numbers
      <4> QED
        BY <1>6, <4>1, <4>2
    <3> QED
      BY <1>1, <1>6, <3>1, <3>2 DEF AnswererInv
  <2> QED
    BY <2>1, <2>2, PartsNext
<1>10. LogInv'
  <2>1. LogGoesOn
    BY <1>1, LogStays
  <2> QED
    BY <1>5, <2>1, LogGoesOnInv
<1>11. NoUpdateLost'
  <2>1. ASSUME NEW b \in Calls, Behind(b)' PROVE OnItsWay(b)'
    <3>1. Behind(b) \/ caller[b].lost
      BY <1>1, <1>5, <2>1, Numbers DEF Behind, Live, Up
    <3>2. /\ caller[b].pc = "open" /\ Live(b) /\ ~caller'[b].lost
          /\ (doc[b].said > caller[b].heard \/ doc[b].adone \/ doc[b].aerr)
      BY <1>1, <1>5, <2>1 DEF Behind, Live
    <3>3. CASE caller'[b].ev # <<>> /\ caller'[b].ev[Len(caller'[b].ev)] = CallerView(doc[b])
      BY <1>1, <3>3 DEF OnItsWay
    <3>4. CASE /\ caller'[b].ev = caller[b].ev /\ caller'[b].lost = caller[b].lost
               /\ ~(log[i].kind = "update" /\ b = c /\ CallerTold(o, b))
      <4>1. (Behind(b) => OnItsWay(b)) /\ CallerOf[b] \in Operators
        BY Parts, Numbers DEF Inv
      <4>2. OnItsWay(b)
        BY <3>1, <3>2, <3>4, <4>1
      <4>3. CASE caller[b].ev # <<>> /\ caller[b].ev[Len(caller[b].ev)] = CallerView(doc[b])
        BY <3>3, <3>4, <4>3
      <4>4. ASSUME NEW j \in oper[CallerOf[b]].last + 1 .. Len(log), log[j].c = b PROVE OnItsWay(b)'
        <5>1. CASE CallerOf[b] # o
          BY <1>1, <4>1, <4>4, <5>1 DEF OnItsWay
        <5>2. CASE CallerOf[b] = o
          <6>1. oper[o].last \in Nat /\ j \in DOMAIN log /\ j \in Nat
            BY <4>4, <5>2, Numbers
          <6>2. i <= j
            BY <1>1, <3>2, <4>4, <5>2, StreamReads
          <6>3. ASSUME NEW k \in DOMAIN log, i < k, log[k].c = b PROVE OnItsWay(b)'
            <7>1. k \in oper'[CallerOf[b]].last + 1 .. Len(log')
              BY <1>1, <1>2, <5>2, <6>3, Numbers
            <7> QED
              BY <1>1, <6>3, <7>1 DEF OnItsWay
          <6>4. CASE i < j
            BY <4>4, <6>1, <6>3, <6>4
          <6>5. CASE i = j
            <7>1. b = c /\ CallerTold(o, b)
              BY <3>2, <4>4, <5>2, <6>5 DEF CallerTold, CallerSubscribed, c
            <7>2. log[i].kind = "insert"
              BY <3>4, <7>1, Numbers
            <7>3. doc[b].said > 0 \/ doc[b].adone \/ doc[b].aerr
              BY <3>2, Numbers
            <7>4. \E k \in DOMAIN log : i < k /\ log[k].c = b /\ log[k].kind = "update"
              BY <7>1, <7>2, <7>3, UpdateAfterInsert DEF c
            <7> QED
              BY <6>3, <7>4
          <6> QED
            BY <1>2, <6>1, <6>2, <6>4, <6>5
        <5> QED
          BY <5>1, <5>2
      <4> QED
        BY <4>2, <4>3, <4>4 DEF OnItsWay
    <3> QED
      BY <1>5, <3>2, <3>3, <3>4
  <2>2. ASSUME NEW a \in Answerers, AnsBehind(a)' PROVE AnsOnItsWay(a)'
    <3> DEFINE b == ans[a].cur
    <3>1. AnsBehind(a) \/ ans[a].lost
      BY <1>1, <1>6, <2>2, Numbers DEF AnsBehind, Live, Up, Exchanging
    <3>2. ans[a].x = "run" /\ Live(b) /\ ~ans'[a].lost /\ (doc[b].csaid > ans[a].cheard \/ doc[b].cdone \/ doc[b].cerr)
      BY <1>1, <1>6, <2>2 DEF AnsBehind, Live, Exchanging
    <3>3. CASE ans'[a].xev # <<>> /\ ans'[a].xev[Len(ans'[a].xev)] = AnswererView(doc[b])
      BY <1>1, <1>6, <3>3 DEF AnsOnItsWay
    <3>4. CASE /\ ans'[a].xev = ans[a].xev /\ ans'[a].lost = ans[a].lost
               /\ ~(log[i].kind = "update" /\ AnsTold(o, c, a))
      <4>1. (AnsBehind(a) => AnsOnItsWay(a)) /\ AnswererOf[a] \in Operators /\ AnswererInv(a)
        BY Parts, Numbers DEF Inv
      <4>2. AnsOnItsWay(a)
        BY <3>1, <3>2, <3>4, <4>1
      <4>0. b \in Calls /\ doc[b].op = AnswererOf[a] /\ doc[b].answered
        <5>1. b \in Calls /\ holder[b] = a /\ a # None
          BY <3>2, <4>1, MongoQueueAssumption DEF AnswererInv
        <5>2. CallInv(b) /\ HolderInv(b)
          BY <5>1, Parts DEF Inv
        <5> QED
          BY <5>1, <5>2 DEF CallInv, HolderInv
      <4>3. CASE ans[a].xev # <<>> /\ ans[a].xev[Len(ans[a].xev)] = AnswererView(doc[b])
        BY <3>3, <3>4, <4>3
      <4>4. ASSUME NEW j \in oper[AnswererOf[a]].last + 1 .. Len(log), log[j].c = b PROVE AnsOnItsWay(a)'
        <5>1. CASE AnswererOf[a] # o
          BY <1>1, <1>6, <4>1, <4>4, <5>1 DEF AnsOnItsWay
        <5>2. CASE AnswererOf[a] = o
          <6>1. oper[o].last \in Nat /\ j \in DOMAIN log /\ j \in Nat
            BY <4>4, <5>2, Numbers
          <6>2. ASSUME NEW k \in DOMAIN log, i < k, log[k].c = b PROVE AnsOnItsWay(a)'
            <7>1. k \in oper'[AnswererOf[a]].last + 1 .. Len(log')
              BY <1>1, <1>2, <5>2, <6>2, Numbers
            <7> QED
              BY <1>1, <1>6, <6>2, <7>1 DEF AnsOnItsWay
          <6>3. ASSUME NEW k \in DOMAIN log, oper[o].last < k, log[k].c = b, log[k].kind = "update" PROVE AnsOnItsWay(a)'
            <7>1. k \in oper[o].last + 1 .. Len(log) /\ k \in Nat
              BY <6>1, <6>3, Numbers
            <7>2. i <= k
              BY <1>1, <3>2, <4>0, <5>2, <6>3, <7>1, StreamReads
            <7>3. i # k
              BY <3>2, <3>4, <5>2, <6>3 DEF AnsTold, Exchanging, c
            <7> QED
              BY <1>2, <6>2, <6>3, <7>1, <7>2, <7>3
          <6>4. CASE log[j].kind = "update"
            BY <4>4, <5>2, <6>1, <6>3, <6>4
          <6>5. CASE log[j].kind = "insert"
            <7>1. PICK k \in DOMAIN log : j < k /\ log[k].c = b /\ log[k].kind = "update"
              BY <4>0, <4>4, <6>1, <6>5, UpdateAfterInsert
            <7>2. oper[o].last < k
              BY <4>4, <5>2, <6>1, <7>1, Numbers
            <7> QED
              BY <6>3, <7>1, <7>2
          <6> QED
            BY <6>1, <6>4, <6>5, Numbers
        <5> QED
          BY <5>1, <5>2
      <4> QED
        BY <4>2, <4>3, <4>4 DEF AnsOnItsWay
    <3> QED
      BY <1>6, <3>2, <3>3, <3>4
  <2> QED
    BY <2>1, <2>2, PartsNext
<1> QED
  BY <1>7, <1>8, <1>9, <1>10, <1>11 DEF Inv

----------------------------------------------------------------------------
(* The theorems. *)

\* The queue starts in the invariant.
LEMMA InitInv == Init => Inv
<1> SUFFICES ASSUME Init PROVE Inv
  OBVIOUS
<1>0. 0 \in 0..MaxSaid /\ 0 \in 0..MaxEvents /\ <<>> \in Seq(Entries) /\ <<>> \in Seq(CallerViews) /\ <<>> \in Seq(AnswererViews)
  BY MongoQueueAssumption
<1>1. /\ doc = [c \in Calls |-> NoDoc] /\ log = <<>> /\ age = [c \in Calls |-> "fresh"]
      /\ oper = [o \in Operators |-> NewOper]
      /\ caller = [c \in Calls |-> NewCaller] /\ ans = [a \in Answerers |-> NewAns]
      /\ holder = [c \in Calls |-> None] /\ events = 0
  BY DEF Init
<1>2. NoDoc \in Docs /\ NoDoc.st = "none" /\ NoDoc.answered = FALSE /\ NoDoc.said = 0 /\ NoDoc.csaid = 0 /\ ~NoDoc.cdone
  BY NewDocType DEF NoDoc
<1>3. NewOper \in Opers /\ NewOper.last = 0
  BY DEF NewOper, Opers
<1>4. NewCaller \in Callers /\ NewCaller.ev = <<>> /\ NewCaller.heard = 0 /\ NewCaller.pc = "none"
  BY <1>0 DEF NewCaller, Callers
<1>5. NewAns \in Ans /\ NewAns.xev = <<>> /\ NewAns.cheard = 0 /\ NewAns.pc = "none" /\ NewAns.x = "off"
  BY <1>0 DEF NewAns, Ans, Places
<1>6. DocType
  BY <1>0, <1>1, <1>2 DEF DocType
<1>7. OperType
  BY <1>1, <1>3, Cap DEF OperType
<1>8. CallerType
  BY <1>1, <1>4, Cap DEF CallerType
<1>9. AnsType
  BY <1>1, <1>5, Cap DEF AnsType
<1>10. DocInv
  <2>1. ASSUME NEW c \in Calls PROVE CallInv(c)
    <3>1. doc[c] = NoDoc /\ caller[c] = NewCaller /\ holder[c] = None
      BY <1>1
    <3>2. doc[c].answered = (holder[c] # None)
      BY <1>2, <3>1
    <3> QED
      BY <1>1, <1>2, <1>4, <3>1, <3>2, Cap DEF CallInv
  <2> QED
    BY <2>1, Parts
<1>11. HeldInv
  <2>1. ASSUME NEW c \in Calls PROVE HolderInv(c)
    BY <1>1 DEF HolderInv
  <2>2. ASSUME NEW a \in Answerers PROVE AnswererInv(a)
    <3>1. ans[a] = NewAns
      BY <1>1
    <3> QED
      BY <1>5, <3>1, Cap DEF AnswererInv, Busy
  <2> QED
    BY <2>1, <2>2, Parts
<1>12. LogInv
  BY <1>1, Cap DEF LogInv
<1>13. NoUpdateLost
  <2>1. ASSUME NEW c \in Calls PROVE ~Behind(c)
    <3>1. caller[c] = NewCaller
      BY <1>1
    <3> QED
      BY <1>4, <3>1 DEF Behind
  <2>2. ASSUME NEW a \in Answerers PROVE ~AnsBehind(a)
    <3>1. ans[a] = NewAns
      BY <1>1
    <3> QED
      BY <1>5, <3>1 DEF AnsBehind, Exchanging
  <2> QED
    BY <2>1, <2>2, Parts
<1> QED
  BY <1>6, <1>7, <1>8, <1>9, <1>10, <1>11, <1>12, <1>13 DEF Inv

\* Every step preserves the invariant.
LEMMA NextInv == Inv /\ [Next]_vars => Inv'
  BY Steps, SteadyInv, DeliversInv, ExpiresInv, InsertsInv, CallerEventInv, TakesInv, RecvExchangeInv, ExchangeEventInv

\* Documents, oplog, subscriptions and channels keep the inductive invariant.
THEOREM Invariance == Spec => []Inv
  BY InitInv, NextInv, PTL DEF Spec

\* No update of a call is lost on the way to the side that waits for it: whatever
\* streams are replaced, fail or are handed over, what it has not heard, and the end or the
\* error of the other side, is still to be read from the oplog or is the last event in its
\* channel, unless that event went by a full channel or a subscription yet to be made (QueueInv).
THEOREM UpdatesArrive == Spec => []QueueInv
<1>1. ASSUME Inv PROVE QueueInv
  <2>1. DocType /\ OperType /\ CallerType /\ AnsType /\ NoUpdateLost
    BY <1>1 DEF Inv
  <2>2. doc \in [Calls -> Docs] /\ age \in [Calls -> {"fresh", "late", "expired"}] /\ holder \in [Calls -> Answerers \cup {None}]
    BY <2>1 DEF DocType
  <2>3. \A i \in DOMAIN log : log[i].c \in Calls /\ log[i].kind \in {"insert", "update"}
    BY <1>1, Numbers
  <2>4. ASSUME NEW o \in Operators
        PROVE  /\ oper[o].st \in {"up", "closing", "closed", "dead"}
               /\ oper[o].last \in 0..Len(log)
               /\ oper[o].tracking \subseteq Hosts
               /\ oper[o].waiting \cup oper[o].readyFuncs \subseteq Answerers
    <3>1. oper[o].last \in Nat /\ oper[o].last <= Len(log) /\ Len(log) \in Nat
      BY <1>1, Numbers
    <3>2. oper[o] \in Opers
      BY <2>1 DEF OperType
    <3> QED
      BY <3>1, <3>2 DEF Opers
  <2>5. ASSUME NEW c \in Calls
        PROVE  /\ caller[c].pc \in {"none", "inserting", "open", "over"}
               /\ Len(caller[c].ev) <= ExchangeCap /\ caller[c].heard \in 0..MaxSaid
    BY <2>1 DEF CallerType, Callers
  <2>6. ASSUME NEW a \in Answerers
        PROVE  /\ ans[a].pc \in {"none", "sub", "find", "wait", "took", "exch", "failed", "drain", "over"}
               /\ ans[a].cur \in Calls \cup {None} /\ Len(ans[a].xev) <= ExchangeCap
               /\ ans[a].pc \in {"took", "exch", "failed", "drain"} => ans[a].cur # None
    <3>1. ans[a] \in Ans /\ Len(ans[a].xev) <= ExchangeCap
      BY <2>1 DEF AnsType
    <3>2. AnswererInv(a)
      BY <1>1, Parts DEF Inv
    <3>3. ans[a].pc \in {"took", "exch", "failed", "drain"} => ans[a].cur # None
      BY <3>2, MongoQueueAssumption DEF AnswererInv, Busy
    <3> QED
      BY <3>1, <3>3 DEF Ans, Places
  <2>7. TypeOK
    BY <2>2, <2>3, <2>4, <2>5, <2>6 DEF TypeOK
  <2> QED
    BY <2>1, <2>7 DEF QueueInv
<1> QED
  BY <1>1, Invariance, PTL

----------------------------------------------------------------------------
(* The refinement: what CallQueue sees of a state. *)

aPhase == [c \in Calls |-> IF doc[c].st # "none" /\ doc[c].answered THEN "taken"
                           ELSE IF doc[c].st = "live" THEN "open" ELSE doc[c].st]
aSaid == [c \in Calls |-> doc[c].said]
aCsaid == [c \in Calls |-> doc[c].csaid]
aHeard == [c \in Calls |-> caller[c].heard]
aCheard == [c \in Calls |-> IF holder[c] = None THEN 0 ELSE ans[holder[c]].cheard]

\* A step that changes nothing CallQueue sees is a stutter of CallQueue.
LEMMA SeenSame ==
  ASSUME UNCHANGED <<aPhase, holder, aSaid, aHeard, aCsaid, aCheard>>
  PROVE  UNCHANGED Queue!vars
  BY DEF Queue!vars, aPhase, aSaid, aHeard, aCsaid, aCheard

\* The parts of the state that a step leaves as they are.
LEMMA SamePhase ==
  ASSUME \A c \in Calls : doc'[c].st = doc[c].st /\ doc'[c].answered = doc[c].answered
  PROVE  aPhase' = aPhase
  BY DEF aPhase

\* Nothing is said by an answerer ...
LEMMA SameSaid ==
  ASSUME \A c \in Calls : doc'[c].said = doc[c].said
  PROVE  aSaid' = aSaid
  BY DEF aSaid

\* ... or by a caller ...
LEMMA SameCsaid ==
  ASSUME \A c \in Calls : doc'[c].csaid = doc[c].csaid
  PROVE  aCsaid' = aCsaid
  BY DEF aCsaid

\* ... a caller hears nothing ...
LEMMA SameHeard ==
  ASSUME \A c \in Calls : caller'[c].heard = caller[c].heard
  PROVE  aHeard' = aHeard
  BY DEF aHeard

\* ... and neither does an answerer.
LEMMA SameCheard ==
  ASSUME Inv, holder' = holder, \A a \in Answerers : ans'[a].cheard = ans[a].cheard
  PROVE  aCheard' = aCheard
<1>1. ASSUME NEW c \in Calls PROVE holder[c] # None => holder[c] \in Answerers
  BY DEF Inv, DocType
<1> QED
  BY <1>1 DEF aCheard

\* The abstract actions on what is seen.
LEMMA AbstractSendOffer ==
  ASSUME NEW c \in Calls, aPhase[c] = "none", aPhase' = [aPhase EXCEPT ![c] = "open"],
         UNCHANGED <<holder, aSaid, aHeard, aCsaid, aCheard>>
  PROVE  Queue!Next
  BY DEF Queue!Next, Queue!SendOffer, aPhase, aSaid, aHeard, aCsaid, aCheard

\* An open call is taken.
LEMMA AbstractRecvOffer ==
  ASSUME NEW c \in Calls, NEW a \in Answerers, aPhase[c] = "open", aPhase' = [aPhase EXCEPT ![c] = "taken"],
         holder' = [holder EXCEPT ![c] = a], UNCHANGED <<aSaid, aHeard, aCsaid, aCheard>>
  PROVE  Queue!Next
  BY DEF Queue!Next, Queue!RecvOffer, aPhase, aSaid, aHeard, aCsaid, aCheard

\* An open call is gone.
LEMMA AbstractExpire ==
  ASSUME NEW c \in Calls, aPhase[c] = "open", aPhase' = [aPhase EXCEPT ![c] = "gone"],
         UNCHANGED <<holder, aSaid, aHeard, aCsaid, aCheard>>
  PROVE  Queue!Next
  BY DEF Queue!Next, Queue!Expire, aPhase, aSaid, aHeard, aCsaid, aCheard

\* The answerer of a taken call responds.
LEMMA AbstractRespond ==
  ASSUME NEW c \in Calls, aPhase[c] = "taken", aSaid' = [aSaid EXCEPT ![c] = @ + 1],
         UNCHANGED <<aPhase, holder, aHeard, aCsaid, aCheard>>
  PROVE  Queue!Next
  BY DEF Queue!Next, Queue!AnswererRespond, aPhase, aSaid, aHeard, aCsaid, aCheard

\* A caller hears of responses.
LEMMA AbstractCallerHears ==
  ASSUME NEW c \in Calls, NEW n \in aHeard[c] + 1 .. aSaid[c], aHeard' = [aHeard EXCEPT ![c] = n],
         UNCHANGED <<aPhase, holder, aSaid, aCsaid, aCheard>>
  PROVE  Queue!Next
  BY DEF Queue!Next, Queue!CallerHears, aPhase, aSaid, aHeard, aCsaid, aCheard

\* A caller that heard a response sends a candidate.
LEMMA AbstractUpdate ==
  ASSUME NEW c \in Calls, aHeard[c] > 0, aCsaid' = [aCsaid EXCEPT ![c] = @ + 1],
         UNCHANGED <<aPhase, holder, aSaid, aHeard, aCheard>>
  PROVE  Queue!Next
  BY DEF Queue!Next, Queue!SendOfferUpdate, aPhase, aSaid, aHeard, aCsaid, aCheard

\* An answerer hears of candidates.
LEMMA AbstractAnswererHears ==
  ASSUME NEW c \in Calls, NEW n \in aCheard[c] + 1 .. aCsaid[c], aCheard' = [aCheard EXCEPT ![c] = n],
         UNCHANGED <<aPhase, holder, aSaid, aHeard, aCsaid>>
  PROVE  Queue!Next
  BY DEF Queue!Next, Queue!AnswererHears, aPhase, aSaid, aHeard, aCsaid, aCheard

\* Each step is one of CallQueue's, or none.
LEMMA SteadySeen ==
  ASSUME Inv, Steady
  PROVE  Queue!Next \/ UNCHANGED Queue!vars
<1>1. aPhase' = aPhase
  BY SteadyDoc, SamePhase
<1>2. aHeard' = aHeard
  BY SameHeard DEF Steady, CallersKeep, CallerKeeps
<1>3. holder' = holder /\ aCheard' = aCheard
  BY SameCheard DEF Steady, AllAnsKeep, AnsKeeps
<1>4. CASE \A c \in Calls : doc'[c].said = doc[c].said /\ doc'[c].csaid = doc[c].csaid
  <2>1. aSaid' = aSaid /\ aCsaid' = aCsaid
    BY <1>4, SameSaid, SameCsaid
  <2> QED
    BY <1>1, <1>2, <1>3, <2>1, SeenSame
<1>5. ASSUME NEW c \in Calls, Wrote(c), ~(doc'[c].said = doc[c].said /\ doc'[c].csaid = doc[c].csaid)
      PROVE  Queue!Next
  <2>1. (\A b \in Calls \ {c} : doc'[b] = doc[b]) /\ Said(c) /\ Live(c)
    BY <1>5 DEF Wrote
  <2>2. CASE doc'[c].said = doc[c].said + 1 /\ doc'[c].csaid = doc[c].csaid /\ doc[c].answered
    <3>1. aCsaid' = aCsaid
      BY <2>1, <2>2, SameCsaid
    <3>2. aSaid' = [aSaid EXCEPT ![c] = @ + 1]
      BY <2>1, <2>2 DEF aSaid
    <3>3. aPhase[c] = "taken"
      BY <2>1, <2>2 DEF aPhase, Live
    <3> QED
      BY <1>1, <1>2, <1>3, <3>1, <3>2, <3>3, AbstractRespond
  <2>3. CASE doc'[c].said = doc[c].said /\ doc'[c].csaid = doc[c].csaid + 1 /\ caller[c].heard > 0
    <3>1. aSaid' = aSaid
      BY <2>1, <2>3, SameSaid
    <3>2. aCsaid' = [aCsaid EXCEPT ![c] = @ + 1]
      BY <2>1, <2>3 DEF aCsaid
    <3>3. aHeard[c] > 0
      BY <2>3 DEF aHeard
    <3> QED
      BY <1>1, <1>2, <1>3, <3>1, <3>2, <3>3, AbstractUpdate
  <2> QED
    BY <1>5, <2>1, <2>2, <2>3 DEF Said
<1>6. UNCHANGED <<doc, log>> \/ \E c \in Calls : Wrote(c)
  BY DEF Steady
<1>7. ASSUME NEW c \in Calls, Wrote(c), doc'[c].said = doc[c].said /\ doc'[c].csaid = doc[c].csaid
      PROVE  \A b \in Calls : doc'[b].said = doc[b].said /\ doc'[b].csaid = doc[b].csaid
  BY <1>7 DEF Wrote
<1> QED
  BY <1>4, <1>5, <1>6, <1>7

\* An event on its way to a channel is not seen by CallQueue.
LEMMA DeliversSeen ==
  ASSUME Inv, NEW o \in Operators, NEW i \in DOMAIN log, Delivers(o, i)
  PROVE  UNCHANGED Queue!vars
<1>1. UNCHANGED <<doc, holder>>
  BY DEF Delivers
<1>2. ASSUME NEW c \in Calls PROVE caller'[c].heard = caller[c].heard
  BY DEF Delivers, CallerNotified
<1>3. ASSUME NEW a \in Answerers PROVE ans'[a].cheard = ans[a].cheard
  BY DEF Delivers, AnsNotified, AnsSame
<1>4. aPhase' = aPhase /\ aSaid' = aSaid /\ aCsaid' = aCsaid
  BY <1>1 DEF aPhase, aSaid, aCsaid
<1>5. aHeard' = aHeard /\ aCheard' = aCheard
  BY <1>1, <1>2, <1>3, SameHeard, SameCheard
<1> QED
  BY <1>1, <1>4, <1>5, SeenSame

\* A document that expires is an open call that is gone, or nothing once it was taken.
LEMMA ExpiresSeen ==
  ASSUME Inv, NEW c \in Calls, CallTTL(c)
  PROVE  Queue!Next \/ UNCHANGED Queue!vars
<1>1. /\ doc' \in [Calls -> Docs] /\ (\A b \in Calls \ {c} : doc'[b] = doc[b])
      /\ Live(c) /\ doc'[c].st = "gone"
      /\ doc'[c].answered = doc[c].answered /\ doc'[c].said = doc[c].said /\ doc'[c].csaid = doc[c].csaid
      /\ UNCHANGED <<caller, ans, holder>>
  BY TTLEffect DEF Inv, Kept, Fields
<1>2. aSaid' = aSaid /\ aCsaid' = aCsaid /\ aHeard' = aHeard /\ aCheard' = aCheard
  BY <1>1 DEF aSaid, aCsaid, aHeard, aCheard
<1>3. CASE doc[c].answered
  <2>1. aPhase' = aPhase
    BY <1>1, <1>3 DEF aPhase, Live
  <2> QED
    BY <1>1, <1>2, <2>1, SeenSame
<1>4. CASE ~doc[c].answered
  <2>1. aPhase[c] = "open" /\ aPhase' = [aPhase EXCEPT ![c] = "gone"]
    BY <1>1, <1>4 DEF aPhase, Live
  <2> QED
    BY <1>1, <1>2, <2>1, AbstractExpire
<1> QED
  BY <1>3, <1>4

\* An insert is SendOffer.
LEMMA InsertsSeen ==
  ASSUME Inv, NEW c \in Calls, Inserts(c)
  PROVE  Queue!Next
<1>1. /\ (\A b \in Calls \ {c} : caller'[b] = caller[b]) /\ caller[c].pc = "inserting"
      /\ caller'[c].heard = caller[c].heard
      /\ (\A b \in Calls \ {c} : doc'[b] = doc[b]) /\ doc'[c] = NewDoc
      /\ UNCHANGED <<ans, holder>>
  BY InsertsEffect
<1>2. doc[c] = NoDoc
  BY <1>1, Parts DEF Inv, CallInv
<1>3. /\ NoDoc.st = "none" /\ NewDoc.st = "live" /\ ~NewDoc.answered /\ NewDoc.said = NoDoc.said /\ NewDoc.csaid = NoDoc.csaid
  BY DEF NewDoc, NoDoc
<1>4. aHeard' = aHeard /\ aCheard' = aCheard /\ aSaid' = aSaid /\ aCsaid' = aCsaid
  BY <1>1, <1>2, <1>3 DEF aHeard, aCheard, aSaid, aCsaid
<1>5. aPhase[c] = "none" /\ aPhase' = [aPhase EXCEPT ![c] = "open"]
  BY <1>1, <1>2, <1>3 DEF aPhase
<1> QED
  BY <1>1, <1>4, <1>5, AbstractSendOffer

\* An answerer that takes a document is RecvOffer.
LEMMA TakesSeen ==
  ASSUME Inv, NEW a \in Answerers, NEW c \in Calls, Takes(a, c)
  PROVE  Queue!Next
<1>0. Taken(a, c)
  BY TakesEffect
<1>1. /\ Live(c) /\ doc[c].answered = FALSE /\ holder[c] = None /\ doc'[c].answered = TRUE
      /\ \A b \in Calls : /\ doc'[b].st = doc[b].st /\ doc'[b].said = doc[b].said /\ doc'[b].csaid = doc[b].csaid
                          /\ b # c => doc'[b] = doc[b] /\ holder'[b] = holder[b]
      /\ holder' \in [Calls -> Answerers \cup {None}] /\ holder'[c] = a
      /\ (\A b \in Answerers \ {a} : ans'[b] = ans[b]) /\ ans'[a].cheard = 0
      /\ (\A b \in Calls : holder[b] # a) /\ caller' = caller
  BY <1>0 DEF Taken
<1>2. aHeard' = aHeard /\ aSaid' = aSaid /\ aCsaid' = aCsaid
  BY <1>1, SameSaid, SameCsaid DEF aHeard
<1>3. aCheard' = aCheard
  <2>1. ASSUME NEW b \in Calls
        PROVE  (IF holder'[b] = None THEN 0 ELSE ans'[holder'[b]].cheard) = (IF holder[b] = None THEN 0 ELSE ans[holder[b]].cheard)
    <3>1. holder[b] \in Answerers \cup {None} /\ a # None
      BY MongoQueueAssumption DEF Inv, DocType
    <3> QED
      BY <1>1, <3>1
  <2> QED
    BY <2>1 DEF aCheard
<1>4. aPhase[c] = "open" /\ aPhase' = [aPhase EXCEPT ![c] = "taken"]
  <2>1. doc[c].st = "live" /\ doc'[c].st = "live" /\ ~doc[c].answered /\ doc'[c].answered
    BY <1>1 DEF Live
  <2>2. ASSUME NEW b \in Calls, b # c PROVE doc'[b] = doc[b]
    BY <1>1, <2>2
  <2> QED
    BY <2>1, <2>2 DEF aPhase
<1>5. holder' = [holder EXCEPT ![c] = a]
  BY DEF Takes, Take
<1> QED
  BY <1>2, <1>3, <1>4, <1>5, AbstractRecvOffer

\* A caller that reads an event hears of responses, or of nothing new.
LEMMA CallerEventSeen ==
  ASSUME Inv, NEW c \in Calls, CallerEvent(c)
  PROVE  Queue!Next \/ UNCHANGED Queue!vars
<1>1. /\ (\A b \in Calls \ {c} : caller'[b] = caller[b])
      /\ caller[c].heard <= caller'[c].heard /\ caller'[c].heard <= doc[c].said
      /\ UNCHANGED <<doc, log>> \/ (Updates(c, {"cerr"}) /\ Live(c))
      /\ UNCHANGED <<ans, holder>> /\ caller' \in [Calls -> Callers]
  BY CallerEventEffect
<1>2. \A b \in Calls : /\ doc'[b].st = doc[b].st /\ doc'[b].answered = doc[b].answered
                       /\ doc'[b].said = doc[b].said /\ doc'[b].csaid = doc[b].csaid
  BY <1>1 DEF Updates, Kept, Fields
<1>3. aPhase' = aPhase /\ aSaid' = aSaid /\ aCsaid' = aCsaid
  BY <1>2, SamePhase, SameSaid, SameCsaid
<1>4. aCheard' = aCheard
  BY <1>1 DEF aCheard
<1>5. CASE caller'[c].heard = caller[c].heard
  <2>1. aHeard' = aHeard
    BY <1>1, <1>5, SameHeard
  <2> QED
    BY <1>1, <1>3, <1>4, <2>1, SeenSame
<1>6. CASE caller'[c].heard # caller[c].heard
  <2> DEFINE n == caller'[c].heard
  <2>1. n \in Nat /\ caller[c].heard \in Nat /\ doc[c].said \in Nat
    BY <1>1, Numbers DEF Callers
  <2>2. n \in aHeard[c] + 1 .. aSaid[c]
    BY <1>1, <1>6, <2>1 DEF aHeard, aSaid
  <2>3. aHeard' = [aHeard EXCEPT ![c] = n]
    BY <1>1 DEF aHeard
  <2> HIDE DEF n
  <2> QED
    BY <1>1, <1>3, <1>4, <2>2, <2>3, AbstractCallerHears
<1> QED
  BY <1>5, <1>6

\* An answerer that starts its exchange is not seen by CallQueue.
LEMMA RecvExchangeSeen ==
  ASSUME Inv, NEW a \in Answerers, RecvExchange(a)
  PROVE  UNCHANGED Queue!vars
<1>1. /\ (\A b \in Answerers \ {a} : ans'[b] = ans[b]) /\ ans'[a].cheard = ans[a].cheard
      /\ UNCHANGED <<doc, caller, holder>>
  BY RecvExchangeEffect
<1>2. aPhase' = aPhase /\ aSaid' = aSaid /\ aCsaid' = aCsaid /\ aHeard' = aHeard
  BY <1>1 DEF aPhase, aSaid, aCsaid, aHeard
<1>3. aCheard' = aCheard
  BY <1>1, SameCheard
<1> QED
  BY <1>1, <1>2, <1>3, SeenSame

\* An answerer that reads an event hears of candidates, or of nothing new.
LEMMA ExchangeEventSeen ==
  ASSUME Inv, NEW a \in Answerers, ExchangeEvent(a)
  PROVE  Queue!Next \/ UNCHANGED Queue!vars
<1>1. /\ ans' \in [Answerers -> Ans] /\ (\A b \in Answerers \ {a} : ans'[b] = ans[b])
      /\ ans[a].cur \in Calls /\ holder[ans[a].cur] = a
      /\ ans[a].cheard <= ans'[a].cheard
      /\ ans'[a].cheard = ans[a].cheard \/ ans'[a].cheard <= doc[ans[a].cur].csaid
      /\ UNCHANGED <<doc, caller, holder>>
  BY ExchangeEventEffect
<1>2. aPhase' = aPhase /\ aSaid' = aSaid /\ aCsaid' = aCsaid /\ aHeard' = aHeard
  BY <1>1 DEF aPhase, aSaid, aCsaid, aHeard
<1>3. CASE ans'[a].cheard = ans[a].cheard
  <2>1. aCheard' = aCheard
    BY <1>1, <1>3, SameCheard
  <2> QED
    BY <1>1, <1>2, <2>1, SeenSame
<1>4. CASE ans'[a].cheard # ans[a].cheard
  <2> DEFINE n == ans'[a].cheard
             c == ans[a].cur
  <2>0. a # None /\ c \in Calls /\ holder[c] = a
    BY <1>1, MongoQueueAssumption
  <2>1. n \in Nat /\ ans[a].cheard \in Nat /\ doc[c].csaid \in Nat
    BY <1>1, Numbers DEF Ans
  <2>2. aCheard[c] = ans[a].cheard /\ aCsaid[c] = doc[c].csaid
    BY <2>0 DEF aCheard, aCsaid
  <2>3. n \in aCheard[c] + 1 .. aCsaid[c]
    BY <1>1, <1>4, <2>1, <2>2
  <2>4. ASSUME NEW b \in Calls
        PROVE  aCheard'[b] = IF b = c THEN n ELSE aCheard[b]
    <3>1. HolderInv(b) /\ holder[b] \in Answerers \cup {None}
      BY Parts DEF Inv, DocType
    <3>2. CASE b = c
      BY <1>1, <2>0, <3>2 DEF aCheard
    <3>3. CASE b # c
      <4>1. holder[b] # a
        BY <2>0, <3>1, <3>3 DEF HolderInv
      <4> QED
        BY <1>1, <3>1, <3>3, <4>1 DEF aCheard
    <3> QED
      BY <3>2, <3>3
  <2>5. aCheard' = [aCheard EXCEPT ![c] = n]
    <3>1. aCheard' = [b \in Calls |-> aCheard'[b]] /\ aCheard = [b \in Calls |-> aCheard[b]]
      BY DEF aCheard
    <3> HIDE DEF n, c
    <3> QED
      BY <2>0, <2>4, <3>1
  <2> HIDE DEF n, c
  <2> QED
    BY <1>1, <1>2, <2>0, <2>3, <2>5, AbstractAnswererHears
<1> QED
  BY <1>3, <1>4

\* The queue in the database implements CallQueue: whatever is replayed, dropped,
\* looked up late or read twice on the way through the database, whichever operators
\* close or crash, an offer goes to one answerer at most and each side is handed what
\* the other said, in order and once (QueueSpec).
THEOREM Implements == Spec => QueueSpec
<1>1. Init => Queue!Init
  BY DEF Init, Queue!Init, NoDoc, NewCaller
<1>2. Inv /\ [Next]_vars => [Queue!Next]_Queue!vars
  <2>1. Inv /\ [Next]_vars => Queue!Next \/ UNCHANGED Queue!vars
    BY Steps, SteadySeen, DeliversSeen, ExpiresSeen, InsertsSeen, CallerEventSeen, TakesSeen, RecvExchangeSeen,
       ExchangeEventSeen
  <2> QED
    BY <2>1
<1> QED
  BY <1>1, <1>2, Invariance, PTL DEF Spec, QueueSpec, Queue!Spec

====
