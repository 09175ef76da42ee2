-------------------------- MODULE AdmissionProofs ---------------------------
(***************************************************************************)
(* What a client is told of its insert is true for good, for any number of  *)
(* clients, slots, requests and restarts, any window and any batch.         *)
(*                                                                          *)
(* An insert travels from the caller's mailbox through the pending queue,   *)
(* the Engine's mailbox, the batch or the Engine's hands into the log or     *)
(* into a refusal.  The invariant says that it is at one place at a time,    *)
(* that a refusal and the log are final, and that a token which was not      *)
(* submitted yet is nowhere.  The table, the monitors and the memory counter *)
(* play no part: a command that meets no permit is dropped, never repeated.  *)
(***************************************************************************)
EXTENDS AdmissionFrontier

\* The provers that a step is tried with, in this order.
USE SMT, Zenon, Z3

---------------------------------------------------------------------------
(* The invariant *)

Submits == {m \in Mail : m.kind = "submit" /\ m.op = "insert"}
Successes == {m \in Reply : m.kind = "completed" /\ m.op = "insert" /\ m.result = "ok"}
Denials == {m \in Reply : m.kind = "completed" /\ m.result # "ok"}

\* What the flush has written so far is the commands it found room for.
Flush ==
  /\ Len(results) <= Len(batch)
  /\ \A i \in DOMAIN batch : batch[i].op = "insert"
  /\ \A i \in DOMAIN results : results[i] = "ok" => batch[i].tok \in Range(appended)
  /\ \A t \in Range(appended) :
       \E i \in DOMAIN results : results[i] = "ok" /\ batch[i].tok = t

\* A success that was promised or answered is in the log.
Kept == Toks(out, Successes) \subseteq Range(log) /\ acked \subseteq Range(log)

\* Where an insert can be.
Mailed(c) == Toks(inbox[c], Submits)
Batched == Toks(batch, Inserts)
Held == IF current # None /\ current \in Inserts THEN {current.tok} ELSE {}
Written == Range(log)
Denied == Toks(out, Denials) \cup refused
Taken == Waiting \cup Sent \cup Batched \cup Held \cup Written
Abroad == Taken \cup UNION {Mailed(c) : c \in Client}

\* An insert the guardian has taken is at one place, once; the log and a refusal
\* exclude each other.
Chain ==
  /\ Written \cap Denied = {}
  /\ Held \cap (Written \cup Denied) = {}
  /\ Batched \cap (Held \cup Written \cup Denied) = {}
  /\ Sent \cap (Batched \cup Held \cup Written \cup Denied) = {}
  /\ Waiting \cap (Sent \cup Batched \cup Held \cup Written \cup Denied) = {}
  /\ Once(pending, Inserts) /\ Once(box, Inserts) /\ Once(batch, Inserts)

\* The same of an insert on its way to the guardian.
Apart ==
  /\ Chain
  /\ \A c \in Client : Mailed(c) \cap (Taken \cup Denied) = {} /\ Once(inbox[c], Submits)

\* A token that was not submitted is nowhere, the current token of a caller is
\* the token of what it asked for, and its mailbox is its own.
Issued ==
  \A c \in Client :
    /\ \A t \in Abroad \cup Denied : ~Unsent(c, t)
    /\ TokenOf(c) \in Abroad => caller[c].op = "insert"
    /\ \A i \in DOMAIN inbox[c] :
         /\ inbox[c][i].tok[1] = c /\ inbox[c][i].tok[2] <= caller[c].n
         /\ inbox[c][i].tok = TokenOf(c) => inbox[c][i].op = caller[c].op

AnswersInv == Shape /\ Flush /\ Kept /\ Apart /\ Issued

---------------------------------------------------------------------------
(* Elements of sequences *)

\* What a written record adds to a log.
LEMMA AppendRange ==
  ASSUME NEW S, NEW s \in Seq(S), NEW e \in S
  PROVE  Range(Append(s, e)) = Range(s) \cup {e}
<1>1. /\ DOMAIN s = 1..Len(s) /\ Len(s) \in Nat
      /\ DOMAIN Append(s, e) = 1..(Len(s) + 1)
      /\ \A i \in DOMAIN s : Append(s, e)[i] = s[i]
      /\ Append(s, e)[Len(s) + 1] = e
  OBVIOUS
<1>2. DOMAIN Append(s, e) = DOMAIN s \cup {Len(s) + 1}
  BY <1>1
<1>3. QED
  BY <1>1, <1>2 DEF Range

\* The records of one log after those of another.
LEMMA ConcatRange ==
  ASSUME NEW S, NEW s \in Seq(S), NEW t \in Seq(S)
  PROVE  Range(s \o t) = Range(s) \cup Range(t)
<1>1. /\ \A i \in DOMAIN s : i \in DOMAIN (s \o t) /\ (s \o t)[i] = s[i]
      /\ \A i \in DOMAIN t : Len(s) + i \in DOMAIN (s \o t) /\ (s \o t)[Len(s) + i] = t[i]
      /\ \A i \in DOMAIN (s \o t) :
           \/ i \in DOMAIN s /\ (s \o t)[i] = s[i]
           \/ i - Len(s) \in DOMAIN t /\ (s \o t)[i] = t[i - Len(s)]
  BY ConcatAt
<1>2. ASSUME NEW x \in Range(t)
      PROVE  x \in Range(s \o t)
  <2>1. PICK i \in DOMAIN t : x = t[i]
    BY DEF Range
  <2>2. QED
    BY <1>1, <2>1, Zenon DEF Range
<1>3. Range(s) \subseteq Range(s \o t) /\ Range(s \o t) \subseteq Range(s) \cup Range(t)
  BY <1>1 DEF Range
<1>4. QED
  BY <1>2, <1>3

---------------------------------------------------------------------------
(* Mailboxes *)

\* What a send does to the submissions under way.
LEMMA SendMail ==
  ASSUME Shape, NEW c \in Client, NEW m \in Mail,
         inbox' = [inbox EXCEPT ![c] = Append(@, m)]
  PROVE  /\ \A d \in Client \ {c} : Mailed(d)' = Mailed(d)
         /\ m \notin Submits => Mailed(c)' = Mailed(c)
         /\ m \in Submits => Mailed(c)' = Mailed(c) \cup {m.tok}
         /\ (\A d \in Client : Once(inbox[d], Submits)) /\ (m \in Submits => m.tok \notin Mailed(c))
            => \A d \in Client : Once(inbox'[d], Submits)
         /\ \A d \in Client : \A i \in DOMAIN inbox'[d] :
              \/ \E j \in DOMAIN inbox[d] : inbox'[d][i] = inbox[d][j]
              \/ d = c /\ inbox'[d][i] = m
<1>1. inbox'[c] = Append(inbox[c], m) /\ \A d \in Client \ {c} : inbox'[d] = inbox[d]
  BY DEF Shape
<1>2. inbox[c] \in Seq(Mail)
  BY DEF Shape
<1>3. \A i \in DOMAIN Append(inbox[c], m) :
        \/ i \in DOMAIN inbox[c] /\ Append(inbox[c], m)[i] = inbox[c][i]
        \/ Append(inbox[c], m)[i] = m
  BY <1>2
<1>4. /\ m \notin Submits => Mailed(c)' = Mailed(c)
      /\ m \in Submits => Mailed(c)' = Mailed(c) \cup {m.tok}
      /\ Once(inbox[c], Submits) /\ (m \in Submits => m.tok \notin Mailed(c))
         => Once(inbox'[c], Submits)
  BY <1>1, <1>2, AppendToks DEF Mailed
<1>5. \A d \in Client \ {c} :
        /\ Mailed(d)' = Mailed(d)
        /\ Once(inbox[d], Submits) => Once(inbox'[d], Submits)
  BY <1>1 DEF Mailed
<1>6. ASSUME NEW d \in Client, NEW i \in DOMAIN inbox'[d]
      PROVE  \/ \E j \in DOMAIN inbox[d] : inbox'[d][i] = inbox[d][j]
             \/ d = c /\ inbox'[d][i] = m
  BY <1>1, <1>3
<1>7. QED
  BY <1>4, <1>5, <1>6

\* What a receipt does to them.
LEMMA ReceiveMail ==
  ASSUME Shape, NEW c \in Client, inbox[c] # << >>,
         inbox' = [inbox EXCEPT ![c] = Tail(@)]
  PROVE  /\ \A d \in Client : Mailed(d)' \subseteq Mailed(d)
         /\ Head(inbox[c]) \in Submits => Head(inbox[c]).tok \in Mailed(c)
         /\ Once(inbox[c], Submits) /\ Head(inbox[c]) \in Submits
            => Head(inbox[c]).tok \notin Mailed(c)'
         /\ (\A d \in Client : Once(inbox[d], Submits))
            => \A d \in Client : Once(inbox'[d], Submits)
         /\ \A d \in Client : \A i \in DOMAIN inbox'[d] :
              \E j \in DOMAIN inbox[d] : inbox'[d][i] = inbox[d][j]
         /\ \E j \in DOMAIN inbox[c] : Head(inbox[c]) = inbox[c][j]
<1>1. inbox'[c] = Tail(inbox[c]) /\ \A d \in Client \ {c} : inbox'[d] = inbox[d]
  BY DEF Shape
<1>2. inbox[c] \in Seq(Mail)
  BY DEF Shape
<1>3. /\ \A i \in DOMAIN Tail(inbox[c]) :
           i + 1 \in DOMAIN inbox[c] /\ Tail(inbox[c])[i] = inbox[c][i + 1]
      /\ 1 \in DOMAIN inbox[c] /\ Head(inbox[c]) = inbox[c][1]
  BY <1>2
<1>4. /\ Mailed(c)' \subseteq Mailed(c)
      /\ Head(inbox[c]) \in Submits => Head(inbox[c]).tok \in Mailed(c)
      /\ Once(inbox[c], Submits) /\ Head(inbox[c]) \in Submits
         => Head(inbox[c]).tok \notin Mailed(c)'
      /\ Once(inbox[c], Submits) => Once(inbox'[c], Submits)
  <2>1. /\ Toks(Tail(inbox[c]), Submits) \subseteq Toks(inbox[c], Submits)
        /\ Head(inbox[c]) \in Submits => Head(inbox[c]).tok \in Toks(inbox[c], Submits)
        /\ Once(inbox[c], Submits) => Once(Tail(inbox[c]), Submits)
        /\ Once(inbox[c], Submits) /\ Head(inbox[c]) \in Submits
           => Head(inbox[c]).tok \notin Toks(Tail(inbox[c]), Submits)
    BY <1>2, TailToks, Zenon
  <2>2. QED
    BY <1>1, <2>1 DEF Mailed
<1>5. \A d \in Client \ {c} :
        /\ Mailed(d)' = Mailed(d)
        /\ Once(inbox[d], Submits) => Once(inbox'[d], Submits)
  BY <1>1 DEF Mailed
<1>6. ASSUME NEW d \in Client, NEW i \in DOMAIN inbox'[d]
      PROVE  \E j \in DOMAIN inbox[d] : inbox'[d][i] = inbox[d][j]
  BY <1>1, <1>3
<1>7. QED
  BY <1>3, <1>4, <1>5, <1>6

---------------------------------------------------------------------------
(* Steps that disturb little *)

\* The flush is where it was.
LEMMA FlushSame ==
  ASSUME Flush, UNCHANGED <<batch, results, appended>>
  PROVE  Flush'
BY DEF Flush

\* No success is added and no record is lost.
LEMMA KeptSame ==
  ASSUME Kept, Toks(out', Successes) \subseteq Toks(out, Successes), UNCHANGED <<log, acked>>
  PROVE  Kept'
BY DEF Kept

\* Submissions arrive or leave, and tokens are refused that are nowhere.
LEMMA ApartCaller ==
  ASSUME Apart, UNCHANGED <<pending, box, batch, current, log, out>>,
         \A c \in Client : Once(inbox'[c], Submits),
         \A c \in Client : Mailed(c)' \cap (Taken \cup Denied) = {},
         \A t \in refused' \ refused :
           t \notin Taken /\ \A c \in Client : t \notin Mailed(c)'
  PROVE  Apart'
<1>1. /\ Waiting' = Waiting /\ Sent' = Sent /\ Batched' = Batched /\ Held' = Held
      /\ Written' = Written /\ Taken' = Taken
      /\ Denied' = Toks(out, Denials) \cup refused'
  BY DEF Waiting, Sent, Batched, Held, Written, Denied, Taken
<1>2. Once(pending, Inserts)' /\ Once(box, Inserts)' /\ Once(batch, Inserts)'
  BY DEF Apart, Chain
<1>3. \A c \in Client : Mailed(c)' \cap (Taken' \cup Denied') = {}
  BY <1>1 DEF Denied
<1>4. Denied' \cap Taken = {}
  BY <1>1, Zenon DEF Apart, Chain, Denied, Taken
<1>5. QED
  BY <1>1, <1>2, <1>3, <1>4, Zenon DEF Apart, Chain, Taken

\* Callers go on with the request they have, or end it.
LEMMA IssuedCalm ==
  ASSUME Shape, Shape', Issued,
         \A c \in Client : /\ caller'[c].n = caller[c].n /\ caller'[c].op = caller[c].op
                           /\ Early(c)' => Early(c),
         \A c \in Client : \A i \in DOMAIN inbox'[c] :
           \/ \E j \in DOMAIN inbox[c] : inbox'[c][i] = inbox[c][j]
           \/ inbox'[c][i].tok = TokenOf(c) /\ inbox'[c][i].op = caller[c].op,
         \A t \in Abroad' :
           \/ t \in Abroad
           \/ \E c \in Client : t = TokenOf(c) /\ caller[c].op = "insert" /\ ~Early(c)',
         \A t \in Denied' :
           \/ t \in Abroad \cup Denied
           \/ \E c \in Client : t = TokenOf(c) /\ ~Early(c)'
  PROVE  Issued'
<1>1. \A c \in Client : TokenOf(c)' = TokenOf(c) /\ caller[c].n \in Nat
  BY Zenon DEF TokenOf, Shape, CallerState
<1>2. \A c \in Client : \A t : Unsent(c, t)' => Unsent(c, t)
  BY Zenon DEF Unsent
<1>3. \A c, d \in Client : \A t : t = TokenOf(d) /\ ~Early(d)' => ~Unsent(c, t)'
  BY <1>1 DEF Unsent, TokenOf
<1>4. SUFFICES ASSUME NEW c \in Client
               PROVE  /\ \A t \in Abroad' \cup Denied' : ~Unsent(c, t)'
                      /\ TokenOf(c)' \in Abroad' => caller'[c].op = "insert"
                      /\ \A i \in DOMAIN inbox'[c] :
                           /\ inbox'[c][i].tok[1] = c /\ inbox'[c][i].tok[2] <= caller'[c].n
                           /\ inbox'[c][i].tok = TokenOf(c)' => inbox'[c][i].op = caller'[c].op
  BY Zenon DEF Issued
<1>5. ASSUME NEW t \in Abroad' \cup Denied', Unsent(c, t)'
      PROVE  FALSE
  <2>1. Unsent(c, t)
    BY <1>2, <1>5, Zenon
  <2>2. t \notin Abroad \cup Denied
    BY <2>1, Zenon DEF Issued
  <2>3. PICK d \in Client : t = TokenOf(d) /\ ~Early(d)'
    BY <2>2, Zenon
  <2>4. QED
    BY <1>3, <1>5, <2>3, Zenon
<1>6. TokenOf(c)' \in Abroad' => caller'[c].op = "insert"
  BY <1>1 DEF Issued, TokenOf
<1>7. ASSUME NEW i \in DOMAIN inbox'[c]
      PROVE  /\ inbox'[c][i].tok[1] = c /\ inbox'[c][i].tok[2] <= caller'[c].n
             /\ inbox'[c][i].tok = TokenOf(c)' => inbox'[c][i].op = caller'[c].op
  <2>1. CASE inbox'[c][i].tok = TokenOf(c) /\ inbox'[c][i].op = caller[c].op
    BY <1>1, <2>1 DEF TokenOf
  <2>2. ASSUME NEW j \in DOMAIN inbox[c], inbox'[c][i] = inbox[c][j]
        PROVE  /\ inbox'[c][i].tok[1] = c /\ inbox'[c][i].tok[2] <= caller'[c].n
               /\ inbox'[c][i].tok = TokenOf(c)' => inbox'[c][i].op = caller'[c].op
    BY <1>1, <2>2 DEF Issued
  <2>3. QED
    BY <2>1, <2>2, Zenon
<1>8. QED
  BY <1>5, <1>6, <1>7, Zenon

\* A request that is not submitted is nowhere yet.
LEMMA EarlyNowhere ==
  ASSUME Shape, Issued, NEW c \in Client, Early(c)
  PROVE  TokenOf(c) \notin Abroad \cup Denied
<1>1. Unsent(c, TokenOf(c))
  BY TokenShape, Zenon DEF Unsent, TokenOf
<1>2. QED
  BY <1>1, Zenon DEF Issued

\* A step of a caller or of the guardian that leaves the commands alone: it adds
\* no submission but that of a request that had none, and refuses no request but
\* the current one of a caller, if it is nowhere.
LEMMA CallerStep ==
  ASSUME AnswersInv, Shape',
         UNCHANGED <<pending, box, batch, results, appended, current, log, out, acked>>,
         \A c \in Client : /\ caller'[c].n = caller[c].n /\ caller'[c].op = caller[c].op
                           /\ Early(c)' => Early(c),
         \A c \in Client : \A i \in DOMAIN inbox'[c] :
           \/ \E j \in DOMAIN inbox[c] : inbox'[c][i] = inbox[c][j]
           \/ inbox'[c][i].tok = TokenOf(c) /\ inbox'[c][i].op = caller[c].op,
         \A c \in Client : Once(inbox'[c], Submits),
         \A c \in Client : \A t \in Mailed(c)' :
           \/ t \in Mailed(c)
           \/ /\ t = TokenOf(c) /\ caller[c].op = "insert" /\ Early(c) /\ ~Early(c)',
         \A t \in refused' \ refused : \E c \in Client : t = TokenOf(c) /\ ~Early(c)',
         \A t \in refused' \ refused :
           t \notin Taken /\ \A c \in Client : t \notin Mailed(c)'
  PROVE  AnswersInv'
<1>1. Flush'
  BY FlushSame, Zenon DEF AnswersInv
<1>2. Kept'
  BY KeptSame, Zenon DEF AnswersInv
<1>3. \A c \in Client : Mailed(c)' \cap (Taken \cup Denied) = {}
  <2>1. ASSUME NEW c \in Client, NEW t \in Mailed(c)'
        PROVE  t \notin Taken \cup Denied
    <3>1. CASE t \in Mailed(c)
      BY <3>1, Zenon DEF AnswersInv, Apart
    <3>2. CASE t = TokenOf(c) /\ Early(c)
      BY <3>2, EarlyNowhere, Zenon DEF AnswersInv, Abroad
    <3>3. QED
      BY <2>1, <3>1, <3>2, Zenon
  <2>2. QED
    BY <2>1, Zenon
<1>4. Apart'
  <2>1. UNCHANGED <<pending, box, batch, current, log, out>>
    OBVIOUS
  <2>2. Apart
    BY Zenon DEF AnswersInv
  <2>3. QED
    BY <1>3, <2>1, <2>2, ApartCaller, Zenon
<1>5. Taken' = Taken /\ Denied' = Toks(out, Denials) \cup refused'
  BY Zenon DEF Taken, Waiting, Sent, Batched, Held, Written, Denied
<1>6. \A t \in Abroad' :
        \/ t \in Abroad
        \/ \E c \in Client : t = TokenOf(c) /\ caller[c].op = "insert" /\ ~Early(c)'
  <2>1. ASSUME NEW t \in Abroad', t \notin Abroad
        PROVE  \E c \in Client : t = TokenOf(c) /\ caller[c].op = "insert" /\ ~Early(c)'
    <3>1. t \in UNION {Mailed(c)' : c \in Client}
      BY <1>5, <2>1, Zenon DEF Abroad
    <3>2. PICK c \in Client : t \in Mailed(c)'
      BY <3>1, Zenon
    <3>3. t \notin Mailed(c)
      BY <2>1, Zenon DEF Abroad
    <3>4. QED
      BY <3>2, <3>3
  <2>2. QED
    BY <2>1, Zenon
<1>7. \A t \in Denied' :
        \/ t \in Abroad \cup Denied
        \/ \E c \in Client : t = TokenOf(c) /\ ~Early(c)'
  BY <1>5, Zenon DEF Denied
<1>8. Issued'
  BY <1>6, <1>7, IssuedCalm, Zenon DEF AnswersInv
<1>9. QED
  BY <1>1, <1>2, <1>4, <1>8, Zenon DEF AnswersInv

\* A refused caller's request is over.
LEMMA RefuseCalm ==
  ASSUME Shape, NEW c \in Client, NEW tok, NEW pc \in {"reserving", "submitting"},
         Owner(tok) = c, Refuse(tok, pc)
  PROVE  /\ \A d \in Client : caller'[d].n = caller[d].n /\ caller'[d].op = caller[d].op
         /\ \A d \in Client : Early(d)' => Early(d)
         /\ \/ refused' = refused
            \/ /\ refused' = refused \cup {tok} /\ tok = TokenOf(c) /\ ~Early(c)'
               /\ caller[c].pc = pc
<1>1. Answer(tok, pc, "idle")
  BY DEF Refuse
<1>2. /\ \A d \in Client : caller'[d].n = caller[d].n /\ caller'[d].op = caller[d].op
      /\ \A d \in Client : Early(d)' => Early(d)
      /\ Waits(tok, pc) => tok = TokenOf(c) /\ caller[c].pc = pc /\ caller'[c].pc = "idle"
  BY <1>1, AnswerCalm, Zenon
<1>3. QED
  BY <1>2, Zenon DEF Refuse, Early

---------------------------------------------------------------------------
(* The steps of callers *)

\* A step in which caller c does not come to have a new request, and sends m,
\* which is no submission of an insert unless c submits one.
LEMMA SendStep ==
  ASSUME AnswersInv, Shape', NEW c \in Client, NEW m \in Mail,
         UNCHANGED <<pending, box, batch, results, appended, current, log, out, acked>>,
         inbox' = [inbox EXCEPT ![c] = Append(@, m)],
         m.tok = TokenOf(c), m.op = caller[c].op,
         \A d \in Client : /\ caller'[d].n = caller[d].n /\ caller'[d].op = caller[d].op
                           /\ Early(d)' => Early(d),
         m \in Submits => Early(c) /\ ~Early(c)',
         refused' = refused \/ /\ refused' = refused \cup {TokenOf(c)} /\ ~Early(c)'
                               /\ m \notin Submits
                               /\ Early(c) \/ caller[c].op # "insert"
  PROVE  AnswersInv'
<1>1. /\ \A d \in Client \ {c} : Mailed(d)' = Mailed(d)
      /\ m \notin Submits => Mailed(c)' = Mailed(c)
      /\ m \in Submits => Mailed(c)' = Mailed(c) \cup {m.tok}
      /\ (\A d \in Client : Once(inbox[d], Submits)) /\ (m \in Submits => m.tok \notin Mailed(c))
         => \A d \in Client : Once(inbox'[d], Submits)
      /\ \A d \in Client : \A i \in DOMAIN inbox'[d] :
           \/ \E j \in DOMAIN inbox[d] : inbox'[d][i] = inbox[d][j]
           \/ d = c /\ inbox'[d][i] = m
  BY SendMail, Zenon DEF AnswersInv
<1>2. Early(c) => TokenOf(c) \notin Abroad \cup Denied
  BY EarlyNowhere, Zenon DEF AnswersInv
<1>3. caller[c].op # "insert" => TokenOf(c) \notin Abroad
  BY Zenon DEF AnswersInv, Issued
<1>4. \A d \in Client : Mailed(d) \subseteq Abroad /\ Taken \subseteq Abroad
  BY DEF Abroad
<1>5. \A d \in Client : Once(inbox'[d], Submits)
  BY <1>1, <1>2, <1>4, Zenon DEF AnswersInv, Apart
<1>6. \A d \in Client : \A t \in Mailed(d)' :
        \/ t \in Mailed(d)
        \/ /\ t = TokenOf(d) /\ caller[d].op = "insert" /\ Early(d) /\ ~Early(d)'
  BY <1>1, Zenon DEF Submits
<1>7. \A t \in refused' \ refused : t = TokenOf(c) /\ ~Early(c)' /\ m \notin Submits
                                   /\ t \notin Abroad
  BY <1>2, <1>3, Zenon
<1>8. \A t \in refused' \ refused : \E d \in Client : t = TokenOf(d) /\ ~Early(d)'
  BY <1>7
<1>9. \A t \in refused' \ refused : t \notin Taken /\ \A d \in Client : t \notin Mailed(d)'
  <2>1. CASE m \in Submits
    BY <1>7, <2>1
  <2>2. CASE m \notin Submits
    <3>1. \A d \in Client : Mailed(d)' = Mailed(d)
      BY <1>1, <2>2, Zenon
    <3>2. QED
      BY <1>4, <1>7, <3>1
  <2>3. QED
    BY <2>1, <2>2, Zenon
<1>10. \A d \in Client : \A i \in DOMAIN inbox'[d] :
         \/ \E j \in DOMAIN inbox[d] : inbox'[d][i] = inbox[d][j]
         \/ inbox'[d][i].tok = TokenOf(d) /\ inbox'[d][i].op = caller[d].op
  BY <1>1, Zenon
<1>11. QED
  BY <1>5, <1>6, <1>8, <1>9, <1>10, CallerStep, Zenon

\* A caller begins a request with a token that is new.
LEMMA RequestInv ==
  ASSUME AnswersInv, Shape', NEW c \in Client, NEW op \in Op, Request(c, op)
  PROVE  AnswersInv'
<1> USE DEF generation, delivery, memory, engine_, history
<1>1. /\ UNCHANGED <<inbox, pending, box, batch, results, appended, current, log, out, acked,
                     refused>>
      /\ \A d \in Client \ {c} : caller'[d] = caller[d]
      /\ caller'[c].n = caller[c].n + 1
      /\ \A d \in Client : caller[d].n \in Nat
  BY DEF Request, AnswersInv, Shape, CallerState
<1>2. /\ Waiting' = Waiting /\ Sent' = Sent /\ Batched' = Batched /\ Held' = Held
      /\ Written' = Written /\ Denied' = Denied
      /\ \A d \in Client : Mailed(d)' = Mailed(d)
  BY <1>1, Zenon DEF Waiting, Sent, Batched, Held, Written, Denied, Mailed
<1>3. Taken' = Taken /\ Abroad' = Abroad
  BY <1>2 DEF Taken, Abroad
<1>4. Flush' /\ Kept'
  BY <1>1, FlushSame, KeptSame, Zenon DEF AnswersInv
<1>5. Apart'
  BY <1>1, <1>2, <1>3, Zenon DEF AnswersInv, Apart, Chain
<1>6. ASSUME NEW d \in Client, NEW t, Unsent(d, t)'
      PROVE  Unsent(d, t)
  <2>1. CASE d = c
    <3>1. t \in Client \X Nat /\ t[1] = c /\ t[2] >= caller[c].n + 1
      BY <1>1, <1>6, <2>1 DEF Unsent
    <3>2. QED
      BY <1>1, <2>1, <3>1 DEF Unsent
  <2>2. CASE d # c
    BY <1>1, <1>6, <2>2, Zenon DEF Unsent, Early
  <2>3. QED
    BY <2>1, <2>2
<1>7. Unsent(c, <<c, caller[c].n + 1>>)
  <2>1. caller[c].n + 1 \in Nat /\ caller[c].n + 1 > caller[c].n
    BY <1>1
  <2>2. <<c, caller[c].n + 1>> \in Client \X Nat
    BY <2>1
  <2>3. QED
    BY <2>1, <2>2 DEF Unsent
<1>8. /\ TokenOf(c)' \notin Abroad
      /\ \A d \in Client \ {c} : TokenOf(d)' = TokenOf(d)
  BY <1>1, <1>7, Zenon DEF AnswersInv, Issued, TokenOf
<1>9. ASSUME NEW d \in Client, NEW t \in Abroad' \cup Denied'
      PROVE  ~Unsent(d, t)'
  <2>1. ~Unsent(d, t)
    BY <1>2, <1>3, <1>9, Zenon DEF AnswersInv, Issued
  <2>2. QED
    BY <1>6, <2>1
<1>10. ASSUME NEW d \in Client, TokenOf(d)' \in Abroad'
       PROVE  caller'[d].op = "insert"
  <2>1. d # c
    BY <1>3, <1>8, <1>10
  <2>2. QED
    BY <1>1, <1>3, <1>8, <1>10, <2>1, Zenon DEF AnswersInv, Issued
<1>11. ASSUME NEW d \in Client, NEW i \in DOMAIN inbox'[d]
       PROVE  /\ inbox'[d][i].tok[1] = d /\ inbox'[d][i].tok[2] <= caller'[d].n
              /\ inbox'[d][i].tok = TokenOf(d)' => inbox'[d][i].op = caller'[d].op
  <2>1. /\ inbox[d][i].tok[1] = d /\ inbox[d][i].tok[2] <= caller[d].n
        /\ inbox[d][i].tok = TokenOf(d) => inbox[d][i].op = caller[d].op
    BY <1>1, <1>11, Zenon DEF AnswersInv, Issued
  <2>2. inbox[d][i].tok \in Client \X Nat
    <3>1. inbox[d][i] \in Mail
      BY <1>1, <1>11 DEF AnswersInv, Shape
    <3>2. QED
      BY <3>1, Zenon DEF Mail
  <2>3. CASE d = c
    <3>1. /\ caller'[c].n = caller[c].n + 1 /\ caller[c].n \in Nat
          /\ inbox'[c][i] = inbox[c][i]
      BY <1>1, Zenon
    <3>2. inbox[c][i].tok[2] \in Nat /\ inbox[c][i].tok[2] <= caller[c].n
      BY <2>1, <2>2, <2>3, Zenon
    <3>3. inbox[c][i].tok[2] <= caller'[c].n /\ inbox[c][i].tok[2] # caller'[c].n
      BY <3>1, <3>2
    <3>4. inbox[c][i].tok # TokenOf(c)'
      BY <3>3 DEF TokenOf
    <3>5. QED
      BY <2>1, <2>3, <3>1, <3>3, <3>4, Zenon
  <2>4. CASE d # c
    BY <1>1, <1>8, <2>1, <2>4, Zenon
  <2>5. QED
    BY <2>3, <2>4, Zenon
<1>12. Issued'
  BY <1>9, <1>10, <1>11, Zenon DEF Issued
<1>13. QED
  BY <1>4, <1>5, <1>12 DEF AnswersInv

\* claim: a request that finds no slot was not submitted.
LEMMA ClaimInv ==
  ASSUME AnswersInv, Shape', NEW c \in Client, Claim(c)
  PROVE  AnswersInv'
<1> USE DEF generation, delivery, memory, engine_, history
<1>1. /\ UNCHANGED <<pending, box, batch, results, appended, current, log, out, acked>>
      /\ caller[c].pc = "started"
  BY DEF Claim
<1>2. Early(c) /\ Shape
  BY <1>1, Zenon DEF Early, AnswersInv
<1>3. CASE /\ caller' = [caller EXCEPT ![c].pc = "idle"]
           /\ refused' = refused \cup {TokenOf(c)} /\ UNCHANGED inbox
  <2>1. /\ ~Early(c)'
        /\ \A d \in Client : /\ caller'[d].n = caller[d].n /\ caller'[d].op = caller[d].op
                             /\ Early(d)' => Early(d)
    <3>1. /\ caller'[c].pc = "idle"
          /\ \A d \in Client \ {c} : caller'[d] = caller[d]
          /\ \A d \in Client : caller'[d].n = caller[d].n /\ caller'[d].op = caller[d].op
      BY <1>2, <1>3, PcMoves, Zenon
    <3>2. QED
      BY <3>1, Zenon DEF Early
  <2>2. TokenOf(c) \notin Abroad
    BY <1>2, EarlyNowhere DEF AnswersInv
  <2>3. \A d \in Client : Mailed(d)' = Mailed(d) /\ Once(inbox'[d], Submits)
    BY <1>3 DEF Mailed, AnswersInv, Apart
  <2>4. \A t \in refused' \ refused : \E d \in Client : t = TokenOf(d) /\ ~Early(d)'
    BY <1>3, <2>1
  <2>5. \A t \in refused' \ refused : t \notin Taken /\ \A d \in Client : t \notin Mailed(d)'
    <3>1. \A t \in refused' \ refused : t = TokenOf(c)
      BY <1>3
    <3>2. TokenOf(c) \notin Taken /\ \A d \in Client : TokenOf(c) \notin Mailed(d)
      BY <2>2 DEF Abroad
    <3>3. QED
      BY <2>3, <3>1, <3>2
  <2>6. \A d \in Client : \A i \in DOMAIN inbox'[d] :
          \/ \E j \in DOMAIN inbox[d] : inbox'[d][i] = inbox[d][j]
          \/ inbox'[d][i].tok = TokenOf(d) /\ inbox'[d][i].op = caller[d].op
    BY <1>3
  <2>7. QED
    BY <1>1, <2>1, <2>3, <2>4, <2>5, <2>6, CallerStep, Zenon
<1>4. ASSUME NEW k \in Key,
             caller' = [caller EXCEPT ![c].pc = "reserving", ![c].key = k],
             inbox' = [inbox EXCEPT ![c] = Append(@, [kind |-> "reserve",
                         tok |-> TokenOf(c), key |-> k, op |-> caller[c].op,
                         gen |-> caller[c].gen])],
             UNCHANGED refused
      PROVE  AnswersInv'
  <2> DEFINE m == [kind |-> "reserve", tok |-> TokenOf(c), key |-> k, op |-> caller[c].op,
                   gen |-> caller[c].gen]
  <2>1. \A d \in Client : /\ caller'[d].n = caller[d].n /\ caller'[d].op = caller[d].op
                          /\ Early(d)' => Early(d)
    BY <1>2, <1>4, Zenon DEF Shape, CallerState, Early
  <2>2. m \in Mail /\ m \notin Submits
    BY <1>2, MailShape, Zenon DEF Submits
  <2>3. m.tok = TokenOf(c) /\ m.op = caller[c].op
    OBVIOUS
  <2>4. inbox' = [inbox EXCEPT ![c] = Append(@, m)]
    BY <1>4
  <2> HIDE DEF m
  <2>5. QED
    BY <1>1, <1>4, <2>1, <2>2, <2>3, <2>4, SendStep, Zenon
<1>5. QED
  BY <1>3, <1>4, Zenon DEF Claim

\* A submission, a timeout, a death.
LEMMA SenderInv ==
  ASSUME AnswersInv, Shape', NEW c \in Client, Submit(c) \/ Timeout(c) \/ Die(c)
  PROVE  AnswersInv'
<1> USE DEF generation, delivery, memory, engine_, history
<1> DEFINE m(kind) == [kind |-> kind, tok |-> TokenOf(c), key |-> caller[c].key,
                       op |-> caller[c].op, gen |-> caller[c].gen]
<1>1. UNCHANGED <<pending, box, batch, results, appended, current, log, out, acked>>
  BY DEF Submit, Timeout, Die
<1>2. Shape
  BY DEF AnswersInv
<1>3. PICK kind \in {"submit", "cancel", "down"}, pc \in {"submitting", "idle", "dead"} :
        /\ inbox' = [inbox EXCEPT ![c] = Append(@, m(kind))]
        /\ caller' = [caller EXCEPT ![c].pc = pc]
        /\ kind = "submit" => caller[c].pc = "granted" /\ refused' = refused
        /\ \/ refused' = refused
           \/ /\ refused' = refused \cup {TokenOf(c)}
              /\ caller[c].pc = "reserving" \/ caller[c].op = "read"
  BY Zenon DEF Submit, Timeout, Die, Send, RefusedOnTimeout
<1>4. /\ ~Early(c)'
      /\ \A d \in Client : /\ caller'[d].n = caller[d].n /\ caller'[d].op = caller[d].op
                           /\ Early(d)' => Early(d)
  BY <1>2, <1>3, PcMoves, Zenon DEF Early
<1>5. m(kind) \in Mail
  BY <1>2, MailShape, Zenon
<1>6. /\ m(kind).tok = TokenOf(c) /\ m(kind).op = caller[c].op
      /\ m(kind) \in Submits => kind = "submit"
  BY Zenon DEF Submits
<1>7. m(kind) \in Submits => Early(c) /\ ~Early(c)'
  BY <1>3, <1>4, <1>6 DEF Early
<1>8. refused' = refused \/ /\ refused' = refused \cup {TokenOf(c)} /\ ~Early(c)'
                            /\ m(kind) \notin Submits
                            /\ Early(c) \/ caller[c].op # "insert"
  BY <1>3, <1>4, <1>6 DEF Early
<1> HIDE DEF m
<1>9. QED
  BY <1>1, <1>3, <1>4, <1>5, <1>6, <1>7, <1>8, SendStep, Zenon

---------------------------------------------------------------------------
(* The guardian's mail *)

\* A mailbox holds the requests of its own caller.
LEMMA OwnMail ==
  ASSUME AnswersInv, NEW c \in Client
  PROVE  /\ \A t \in Mailed(c) : t[1] = c
         /\ inbox[c] # << >> =>
              /\ Head(inbox[c]).tok[1] = c
              /\ Head(inbox[c]).tok = TokenOf(c) => Head(inbox[c]).op = caller[c].op
<1>1. \A i \in DOMAIN inbox[c] :
        /\ inbox[c][i].tok[1] = c
        /\ inbox[c][i].tok = TokenOf(c) => inbox[c][i].op = caller[c].op
  BY Zenon DEF AnswersInv, Issued
<1>2. \A t \in Mailed(c) : t[1] = c
  BY <1>1, Zenon DEF Mailed, Toks
<1>3. inbox[c] # << >> => 1 \in DOMAIN inbox[c] /\ Head(inbox[c]) = inbox[c][1]
  BY DEF AnswersInv, Shape
<1>4. QED
  BY <1>1, <1>2, <1>3, Zenon

\* The guardian takes a message and refuses its request, or nobody's.
LEMMA ReceiveStep ==
  ASSUME AnswersInv, Shape', NEW c \in Client, inbox[c] # << >>,
         inbox' = [inbox EXCEPT ![c] = Tail(@)],
         UNCHANGED <<pending, box, batch, results, appended, current, log, out, acked>>,
         \A d \in Client : /\ caller'[d].n = caller[d].n /\ caller'[d].op = caller[d].op
                           /\ Early(d)' => Early(d),
         refused' = refused \/ /\ refused' = refused \cup {Head(inbox[c]).tok}
                               /\ Head(inbox[c]).tok = TokenOf(c) /\ ~Early(c)'
                               /\ Early(c) \/ Head(inbox[c]).kind = "submit"
  PROVE  AnswersInv'
<1> DEFINE m == Head(inbox[c])
<1>1. /\ \A d \in Client : Mailed(d)' \subseteq Mailed(d)
      /\ m \in Submits => m.tok \in Mailed(c)
      /\ Once(inbox[c], Submits) /\ m \in Submits => m.tok \notin Mailed(c)'
      /\ (\A d \in Client : Once(inbox[d], Submits))
         => \A d \in Client : Once(inbox'[d], Submits)
      /\ \A d \in Client : \A i \in DOMAIN inbox'[d] :
           \E j \in DOMAIN inbox[d] : inbox'[d][i] = inbox[d][j]
  BY ReceiveMail, Zenon DEF AnswersInv
<1>2. m \in Mail
  BY ReceiveShape, Zenon DEF AnswersInv
<1> HIDE DEF m
<1>3. \A d \in Client : Once(inbox[d], Submits) /\ Mailed(d) \cap (Taken \cup Denied) = {}
  BY Zenon DEF AnswersInv, Apart
<1>4. \A d \in Client : Once(inbox'[d], Submits)
  BY <1>1, <1>3, Zenon
<1>5. \A t \in refused' \ refused : t = TokenOf(c) /\ t = m.tok /\ ~Early(c)'
                                   /\ (Early(c) \/ m.kind = "submit")
  BY Zenon DEF m
<1>6. ASSUME NEW t \in refused' \ refused
      PROVE  t \notin Taken /\ \A d \in Client : t \notin Mailed(d)'
  <2>1. Taken \subseteq Abroad /\ \A d \in Client : Mailed(d) \subseteq Abroad
    BY DEF Abroad
  <2>2. CASE Early(c)
    BY <1>1, <1>5, <2>1, <2>2, EarlyNowhere DEF AnswersInv
  <2>3. CASE m.op # "insert"
    <3>1. caller[c].op # "insert"
      BY <1>5, <1>6, <2>3, OwnMail, Zenon DEF m
    <3>2. TokenOf(c) \notin Abroad
      BY <3>1, Zenon DEF AnswersInv, Issued
    <3>3. QED
      BY <1>1, <1>5, <2>1, <3>2, Zenon
  <2>4. CASE m \in Submits
    <3>1. t \in Mailed(c) /\ t \notin Mailed(c)'
      BY <1>1, <1>3, <1>5, <2>4, Zenon
    <3>2. \A d \in Client \ {c} : t \notin Mailed(d)
      <4>1. t[1] = c
        BY <3>1, OwnMail, Zenon
      <4> QED BY <4>1, OwnMail, Zenon
    <3>3. QED
      BY <1>1, <1>3, <3>1, <3>2, Zenon
  <2>5. QED
    BY <1>2, <1>5, <2>2, <2>3, <2>4, Zenon DEF Submits
<1>7. \A t \in refused' \ refused : \E d \in Client : t = TokenOf(d) /\ ~Early(d)'
  BY <1>5
<1>8. QED
  BY <1>1, <1>4, <1>6, <1>7, CallerStep, Zenon

\* A step in which commands move on among the guardian and the Engine.
LEMMA QuietStep ==
  ASSUME AnswersInv, Shape', Chain', UNCHANGED inbox,
         \A c \in Client : /\ caller'[c].n = caller[c].n /\ caller'[c].op = caller[c].op
                           /\ Early(c)' => Early(c),
         Taken' \subseteq Taken, Denied' \subseteq Taken \cup Denied
  PROVE  Apart' /\ Issued'
<1>1. \A c \in Client : Mailed(c)' = Mailed(c)
  BY DEF Mailed
<1>2. \A c \in Client : Mailed(c) \cap (Taken \cup Denied) = {} /\ Once(inbox[c], Submits)
  BY Zenon DEF AnswersInv, Apart
<1>3. Apart'
  BY <1>1, <1>2, Zenon DEF Apart
<1>4. Taken \subseteq Abroad /\ Abroad' \subseteq Abroad
  BY <1>1, Zenon DEF Abroad
<1>5. Issued'
  BY <1>4, IssuedCalm, Zenon DEF AnswersInv
<1>6. QED
  BY <1>3, <1>5

\* reserve, cancel_reservation and the death of a caller.
LEMMA LetterInv ==
  ASSUME AnswersInv, Shape', NEW c \in Client,
         (\E expired \in BOOLEAN : ReserveMsg(c, expired)) \/ CancelMsg(c) \/ DownMsg(c)
  PROVE  AnswersInv'
<1> USE DEF generation, delivery, memory, engine_, history
<1> DEFINE m == Head(inbox[c])
<1>1. /\ inbox[c] # << >> /\ inbox' = [inbox EXCEPT ![c] = Tail(@)]
      /\ UNCHANGED <<pending, box, batch, results, appended, current, log, out, acked>>
  BY Zenon DEF ReserveMsg, CancelMsg, DownMsg
<1>2. \/ UNCHANGED <<caller, refused>>
      \/ UNCHANGED refused /\ Answer(m.tok, "reserving", "granted")
      \/ Refuse(m.tok, "reserving")
  BY Zenon DEF ReserveMsg, CancelMsg, DownMsg
<1>3. Owner(m.tok) = c
  BY <1>1, OwnMail, Zenon DEF Owner
<1> HIDE DEF m
<1> Shape
  BY DEF AnswersInv
<1>4. CASE UNCHANGED <<caller, refused>>
  BY <1>1, <1>4, ReceiveStep, Zenon DEF Early
<1>5. CASE UNCHANGED refused /\ Answer(m.tok, "reserving", "granted")
  <2>1. \A d \in Client : /\ caller'[d].n = caller[d].n /\ caller'[d].op = caller[d].op
                          /\ Early(d)' => Early(d)
    BY <1>3, <1>5, AnswerCalm, Zenon
  <2>2. QED
    BY <1>1, <1>5, <2>1, ReceiveStep, Zenon
<1>6. CASE Refuse(m.tok, "reserving")
  <2>1. /\ \A d \in Client : /\ caller'[d].n = caller[d].n /\ caller'[d].op = caller[d].op
                             /\ Early(d)' => Early(d)
        /\ \/ refused' = refused
           \/ /\ refused' = refused \cup {m.tok} /\ m.tok = TokenOf(c) /\ ~Early(c)'
              /\ caller[c].pc = "reserving"
    BY <1>3, <1>6, RefuseCalm, Zenon
  <2>2. caller[c].pc = "reserving" => Early(c)
    BY DEF Early
  <2>3. QED
    BY <1>1, <2>1, <2>2, ReceiveStep, Zenon DEF m
<1>7. QED
  BY <1>2, <1>4, <1>5, <1>6

\* A submission is queued and dispatched, or refused.
LEMMA SubmitInv ==
  ASSUME AnswersInv, Shape', NEW c \in Client, SubmitMsg(c)
  PROVE  AnswersInv'
<1> USE DEF generation, delivery, memory, engine_, history
<1> DEFINE m == Head(inbox[c])
           cmd == [tok |-> m.tok, key |-> m.key, op |-> m.op]
           p == Append(pending, cmd)
<1>1. /\ inbox[c] # << >> /\ inbox' = [inbox EXCEPT ![c] = Tail(@)] /\ m.kind = "submit"
      /\ UNCHANGED <<batch, results, appended, current, log, out, acked>>
      /\ \/ Dispatch(p, active, Window) /\ UNCHANGED <<caller, refused>>
         \/ Refuse(m.tok, "submitting") /\ UNCHANGED <<delivery, box>>
  BY DEF SubmitMsg
<1>2. Owner(m.tok) = c /\ m \in Mail /\ Shape
  BY <1>1, OwnMail, ReceiveShape, Zenon DEF Owner, AnswersInv
<1>3. cmd \in Order /\ cmd.tok = m.tok /\ (cmd \in Inserts <=> m \in Submits)
  BY <1>1, <1>2, Zenon DEF Mail, Order, AnyToken, Inserts, Submits
<1> HIDE DEF m, cmd
<1>4. CASE Refuse(m.tok, "submitting") /\ UNCHANGED <<delivery, box>>
  <2>1. /\ \A d \in Client : /\ caller'[d].n = caller[d].n /\ caller'[d].op = caller[d].op
                             /\ Early(d)' => Early(d)
        /\ \/ refused' = refused
           \/ refused' = refused \cup {m.tok} /\ m.tok = TokenOf(c) /\ ~Early(c)'
    BY <1>2, <1>4, RefuseCalm, Zenon
  <2>2. QED
    BY <1>1, <1>4, <2>1, ReceiveStep, Zenon DEF m
<1>5. CASE Dispatch(p, active, Window) /\ UNCHANGED <<caller, refused>>
  <2>1. /\ \A d \in Client : Mailed(d)' \subseteq Mailed(d)
        /\ m \in Submits => m.tok \in Mailed(c) /\ m.tok \notin Mailed(c)'
        /\ \A d \in Client : Once(inbox'[d], Submits)
        /\ \A d \in Client : \A i \in DOMAIN inbox'[d] :
             \E j \in DOMAIN inbox[d] : inbox'[d][i] = inbox[d][j]
    BY <1>1, ReceiveMail, Zenon DEF AnswersInv, Apart, m
  <2>2. /\ p \in Seq(Order)
        /\ cmd \in Inserts => Toks(p, Inserts) = Waiting \cup {m.tok}
        /\ cmd \notin Inserts => Toks(p, Inserts) = Waiting
        /\ Once(pending, Inserts) /\ (cmd \in Inserts => m.tok \notin Waiting)
           => Once(p, Inserts)
    <3>1. pending \in Seq(Order)
      BY <1>2 DEF Shape
    <3>2. /\ cmd \in Inserts => Toks(p, Inserts) = Toks(pending, Inserts) \cup {cmd.tok}
          /\ cmd \notin Inserts => Toks(p, Inserts) = Toks(pending, Inserts)
          /\ Once(pending, Inserts) /\ (cmd \in Inserts => cmd.tok \notin Toks(pending, Inserts))
             => Once(p, Inserts)
      BY <1>3, <3>1, AppendToks, Zenon
    <3>3. p \in Seq(Order)
      BY <1>3, <3>1
    <3>4. QED
      BY <1>3, <3>2, <3>3, Zenon DEF Waiting
  <2> HIDE DEF p
  <2>3. /\ m \in Submits => m.tok \notin Taken \cup Denied
        /\ \A d \in Client : Mailed(d)' \cap (Taken \cup Denied) = {}
        /\ m \in Submits => \A d \in Client : m.tok \notin Mailed(d)'
    <3>1. \A d \in Client : Mailed(d) \cap (Taken \cup Denied) = {}
      BY DEF AnswersInv, Apart
    <3>2. m \in Submits => \A d \in Client \ {c} : m.tok \notin Mailed(d)
      BY <2>1, OwnMail
    <3>3. QED
      BY <2>1, <3>1, <3>2, Zenon
  <2>4. /\ Once(p, Inserts) /\ Once(box, Inserts)
        /\ Toks(p, Inserts) \cap (Sent \cup Batched \cup Held \cup Written \cup Denied) = {}
    <3>1. cmd \in Inserts => m.tok \notin Taken \cup Denied
      BY <1>3, <2>3, Zenon
    <3>2. Chain
      BY DEF AnswersInv, Apart
    <3>3. Once(p, Inserts) /\ Once(box, Inserts)
      BY <2>2, <3>1, <3>2, Zenon DEF Chain, Taken
    <3>4. Toks(p, Inserts) \cap (Sent \cup Batched \cup Held \cup Written \cup Denied) = {}
      BY <2>2, <3>1, <3>2, Zenon DEF Chain, Taken
    <3>5. QED
      BY <3>3, <3>4
  <2>5. /\ Waiting' \subseteq Toks(p, Inserts) /\ Sent' \subseteq Sent \cup Toks(p, Inserts)
        /\ Once(pending', Inserts) /\ Once(box', Inserts) /\ Waiting' \cap Sent' = {}
    BY <1>2, <1>5, <2>2, <2>4, DispatchMoves, Zenon DEF Shape
  <2>6. /\ Batched' = Batched /\ Held' = Held /\ Written' = Written /\ Denied' = Denied
        /\ Once(batch', Inserts)
    BY <1>1, <1>5, Zenon DEF Batched, Held, Written, Denied, AnswersInv, Apart, Chain
  <2>7. Chain'
    BY <2>4, <2>5, <2>6, Zenon DEF AnswersInv, Apart, Chain
  <2>8. \A t \in Taken' : t \in Taken \/ (m \in Submits /\ t = m.tok)
    BY <1>3, <2>2, <2>5, <2>6, Zenon DEF Taken
  <2>9. Apart'
    BY <2>1, <2>3, <2>6, <2>7, <2>8, Zenon DEF Apart
  <2>10. Abroad' \subseteq Abroad
    BY <2>1, <2>8 DEF Abroad
  <2>11. Issued'
    BY <1>5, <2>1, <2>6, <2>10, IssuedCalm, Zenon DEF AnswersInv, Early
  <2>12. Flush' /\ Kept'
    BY <1>1, FlushSame, KeptSame DEF AnswersInv
  <2>13. QED
    BY <2>9, <2>11, <2>12 DEF AnswersInv
<1>6. QED
  BY <1>1, <1>4, <1>5, Zenon

---------------------------------------------------------------------------
(* Completions and the generation *)

\* The guardian's queue moves on, or stays; no refusal is added.
LEMMA QueueMoves ==
  ASSUME AnswersInv, NEW x, UNCHANGED <<batch, current, log>>, Denied' \subseteq Denied,
         \/ Dispatch(pending, active \ {x}, Window)
         \/ UNCHANGED <<pending, box>>
         \/ pending' = << >> /\ UNCHANGED box
  PROVE  Chain' /\ Taken' \subseteq Taken
<1>1. Shape /\ Chain
  BY DEF AnswersInv, Apart
<1>2. /\ Batched' = Batched /\ Held' = Held /\ Written' = Written
      /\ Once(batch', Inserts) = Once(batch, Inserts)
  BY DEF Batched, Held, Written
<1>3. CASE Dispatch(pending, active \ {x}, Window)
  <2>2. Toks(pending, Inserts) \cap Sent = {} /\ Once(pending, Inserts) /\ Once(box, Inserts)
    BY <1>1 DEF Chain, Waiting
  <2>3. /\ Waiting' \subseteq Waiting /\ Sent' \subseteq Sent \cup Waiting
        /\ Once(pending', Inserts) /\ Once(box', Inserts) /\ Waiting' \cap Sent' = {}
    BY <1>1, <1>3, <2>2, DispatchMoves, Zenon DEF Shape, Waiting
  <2>4. QED
    BY <1>1, <1>2, <2>3 DEF Chain, Taken
<1>4. CASE UNCHANGED <<pending, box>>
  <2>1. Waiting' = Waiting /\ Sent' = Sent
    BY <1>4 DEF Waiting, Sent
  <2>2. QED
    BY <1>1, <1>2, <1>4, <2>1, Zenon DEF Chain, Taken
<1>5. CASE pending' = << >> /\ UNCHANGED box
  <2>1. Waiting' = {} /\ Once(pending', Inserts) /\ Sent' = Sent
    BY <1>5, EmptyToks DEF Waiting, Sent
  <2>2. QED
    BY <1>1, <1>2, <1>5, <2>1, Zenon DEF Chain, Taken
<1>6. QED
  BY <1>3, <1>4, <1>5

\* Whoever is answered, no request begins.
LEMMA EndCalm ==
  ASSUME Shape, NEW tok, Answer(tok, "submitting", "idle")
  PROVE  \A d \in Client : /\ caller'[d].n = caller[d].n /\ caller'[d].op = caller[d].op
                           /\ Early(d)' => Early(d)
<1>1. PICK c : c = Owner(tok)
  OBVIOUS
<1>2. CASE c \in Client
  BY <1>1, <1>2, AnswerCalm, Zenon
<1>3. CASE c \notin Client
  <2>1. caller' = caller
    BY <1>1, <1>3 DEF Answer, Shape
  <2>2. QED
    BY <2>1 DEF Early
<1>4. QED
  BY <1>2, <1>3

\* The outcome that a caller is given is settled.
LEMMA CompleteStep ==
  ASSUME AnswersInv, Shape', NEW m, Complete(m),
         UNCHANGED <<inbox, batch, results, appended, current, log>>,
         m.result = "ok" /\ m.op = "insert" => m.tok \in Written,
         m.result # "ok" => m.tok \in Denied,
         Toks(out', Denials) \subseteq Toks(out, Denials),
         Toks(out', Successes) \subseteq Toks(out, Successes)
  PROVE  AnswersInv'
<1> USE DEF delivery, history
<1>1. Shape /\ Flush /\ Kept
  BY DEF AnswersInv
<1>2. \/ UNCHANGED <<caller, acked, refused>>
      \/ /\ m.result = "ok" /\ Answer(m.tok, "submitting", "idle") /\ UNCHANGED refused
         /\ acked' = acked \/ (acked' = acked \cup {m.tok} /\ m.op = "insert")
      \/ m.result # "ok" /\ Refuse(m.tok, "submitting") /\ UNCHANGED acked
  BY Zenon DEF Complete
<1>3. \A d \in Client : /\ caller'[d].n = caller[d].n /\ caller'[d].op = caller[d].op
                        /\ Early(d)' => Early(d)
  <2>1. CASE UNCHANGED caller
    BY <2>1, Zenon DEF Early
  <2>2. CASE Answer(m.tok, "submitting", "idle")
    BY <1>1, <2>2, EndCalm, Zenon
  <2>3. QED
    BY <1>2, <2>1, <2>2, Zenon DEF Refuse
<1>4. Denied' \subseteq Denied
  <2>1. refused' \subseteq Denied
    BY <1>2, Zenon DEF Refuse, Denied
  <2>2. QED
    BY <2>1 DEF Denied
<1>5. acked' \subseteq Written
  BY <1>1, <1>2, Zenon DEF Kept, Written
<1>6. Flush' /\ Kept'
  BY <1>1, <1>5, FlushSame, Zenon DEF Kept, Written
<1>7. Dispatch(pending, active \ {m.tok}, Window) \/ UNCHANGED <<pending, box>>
  BY Zenon DEF Complete
<1>8. Chain' /\ Taken' \subseteq Taken
  BY <1>4, <1>7, QueueMoves, Zenon
<1>9. Apart' /\ Issued'
  BY <1>3, <1>4, <1>8, QuietStep, Zenon
<1>10. QED
  BY <1>6, <1>9, Zenon DEF AnswersInv

\* What the guardian's receipt does to the Engine's messages.
LEMMA OutTail ==
  ASSUME Shape, out # << >>, out' = Tail(out)
  PROVE  /\ Head(out) \in Reply
         /\ Toks(out', Denials) \subseteq Toks(out, Denials)
         /\ Toks(out', Successes) \subseteq Toks(out, Successes)
         /\ Head(out) \in Denials => Head(out).tok \in Toks(out, Denials)
         /\ Head(out) \in Successes => Head(out).tok \in Toks(out, Successes)
<1>1. out \in Seq(Reply)
  BY DEF Shape
<1>2. Head(out) \in Reply
  BY <1>1
<1>3. QED
  BY <1>1, <1>2, TailToks, Zenon

\* completed: an answer of the Engine.
LEMMA CompletedInv ==
  ASSUME AnswersInv, Shape', CompletedMsg
  PROVE  AnswersInv'
<1>1. /\ out # << >> /\ out' = Tail(out) /\ Head(out).kind = "completed"
      /\ Complete(Head(out)) /\ UNCHANGED <<inbox, batch, results, appended, current, log>>
  BY Zenon DEF CompletedMsg, engine_
<1>2. /\ Head(out) \in Reply
      /\ Toks(out', Denials) \subseteq Toks(out, Denials)
      /\ Toks(out', Successes) \subseteq Toks(out, Successes)
      /\ Head(out) \in Denials => Head(out).tok \in Toks(out, Denials)
      /\ Head(out) \in Successes => Head(out).tok \in Toks(out, Successes)
  BY <1>1, OutTail, Zenon DEF AnswersInv
<1>3. Head(out).result = "ok" /\ Head(out).op = "insert" => Head(out).tok \in Written
  BY <1>1, <1>2, Zenon DEF Successes, AnswersInv, Kept, Written
<1>4. Head(out).result # "ok" => Head(out).tok \in Denied
  BY <1>1, <1>2, Zenon DEF Denials, Denied
<1>5. QED
  BY <1>1, <1>2, <1>3, <1>4, CompleteStep, Zenon

\* An answer of the schedule coordinator.
LEMMA CoordinatorInv ==
  ASSUME AnswersInv, Shape', NEW x \in coordinator, CoordinatorDone(x)
  PROVE  AnswersInv'
<1> DEFINE m == [tok |-> x.cmd.tok, key |-> x.cmd.key, op |-> x.cmd.op, gen |-> x.gen,
                 result |-> "ok"]
<1>1. Complete(m) /\ UNCHANGED <<inbox, batch, results, appended, current, log, out>>
  BY Zenon DEF CoordinatorDone, engine_
<1>2. m.result = "ok" /\ m.op # "insert"
  BY Zenon DEF AnswersInv, Shape
<1> HIDE DEF m
<1>3. QED
  BY <1>1, <1>2, CompleteStep, Zenon

\* A step that callers and their mailboxes do not notice.
LEMMA CarryStep ==
  ASSUME AnswersInv, Shape', Flush', Kept', Chain', UNCHANGED <<caller, inbox>>,
         Taken' \subseteq Taken, Denied' \subseteq Taken \cup Denied
  PROVE  AnswersInv'
<1>1. \A c \in Client : /\ caller'[c].n = caller[c].n /\ caller'[c].op = caller[c].op
                        /\ Early(c)' => Early(c)
  BY Zenon DEF Early
<1>2. QED
  BY <1>1, QuietStep, Zenon DEF AnswersInv

\* A step that leaves the Engine's commands and the log alone, and takes at most
\* a message of the Engine.
LEMMA GuardianCarry ==
  ASSUME AnswersInv, Shape', NEW x,
         UNCHANGED <<caller, inbox, batch, results, appended, current, log, acked, refused>>,
         out' = out \/ (out # << >> /\ out' = Tail(out)),
         \/ Dispatch(pending, active \ {x}, Window)
         \/ UNCHANGED <<pending, box>>
         \/ pending' = << >> /\ UNCHANGED box
  PROVE  AnswersInv'
<1>1. /\ Toks(out', Denials) \subseteq Toks(out, Denials)
      /\ Toks(out', Successes) \subseteq Toks(out, Successes)
  BY OutTail, Zenon DEF AnswersInv
<1>2. Flush' /\ Kept'
  BY <1>1, FlushSame, KeptSame, Zenon DEF AnswersInv
<1>3. Denied' \subseteq Denied
  BY <1>1, Zenon DEF Denied
<1>4. Chain' /\ Taken' \subseteq Taken
  BY <1>3, QueueMoves, Zenon
<1>5. QED
  BY <1>2, <1>3, <1>4, CarryStep

\* The steps of the guardian's generation that move no insert but a queued one.
LEMMA GenerationInv ==
  ASSUME AnswersInv, Shape',
         \/ \E expired \in SUBSET Claimed : Reap(expired)
         \/ YieldedMsg \/ DrainedMsg \/ Revoke \/ ForcedRestart \/ OperationStarting
         \/ EngineStarts \/ FlushBegin \/ UNCHANGED vars
  PROVE  AnswersInv'
<1> USE DEF generation, delivery, memory, engine_, history
<1>1. CASE YieldedMsg
  <2>1. /\ UNCHANGED <<caller, inbox, batch, results, appended, current, log, acked, refused>>
        /\ out # << >> /\ out' = Tail(out)
        /\ \/ Dispatch(pending, active \ {Head(out).tok}, Window)
           \/ UNCHANGED <<pending, box>>
    BY <1>1, Zenon DEF YieldedMsg
  <2>2. QED
    BY <2>1, GuardianCarry, Zenon
<1>2. CASE ~YieldedMsg
  <2>1. /\ UNCHANGED <<caller, inbox, batch, results, appended, current, log, acked, refused>>
        /\ out' = out \/ (out # << >> /\ out' = Tail(out))
        /\ UNCHANGED box /\ (UNCHANGED pending \/ pending' = << >>)
    BY <1>2, Zenon DEF Reap, DrainedMsg, Revoke, ForcedRestart, OperationStarting,
                       ClearGeneration, EngineStarts, FlushBegin, vars
  <2>2. QED
    BY <2>1, GuardianCarry, Zenon
<1>3. QED
  BY <1>1, <1>2

\* Tay.restart: the queue goes to the Engine before the drain signal.
LEMMA RestartInv ==
  ASSUME AnswersInv, Shape', Restart
  PROVE  AnswersInv'
<1> USE DEF generation, delivery, memory, engine_, history
<1>1. /\ UNCHANGED <<caller, inbox, batch, results, appended, current, log, out, acked, refused>>
      /\ pending' = << >>
      /\ box' = Append(box \o pending, Drain) \/ box' = box
  BY Zenon DEF Restart
<1>2. Shape /\ Chain
  BY DEF AnswersInv, Apart
<1>3. /\ box \o pending \in Seq(Order)
      /\ Toks(box \o pending, Inserts) = Sent \cup Waiting
      /\ Once(box \o pending, Inserts)
  <2>1. box \in Seq(Order) /\ pending \in Seq(Order)
    BY <1>2 DEF Shape
  <2>2. /\ Toks(box, Inserts) = Sent /\ Toks(pending, Inserts) = Waiting
        /\ Sent \cap Waiting = {} /\ Once(box, Inserts) /\ Once(pending, Inserts)
    BY <1>2 DEF Chain, Sent, Waiting
  <2>3. box \o pending \in Seq(Order)
    BY <2>1
  <2>4. QED
    BY <2>1, <2>2, <2>3, ConcatToks
<1>4. Drain \in Order /\ Drain \notin Inserts
  BY DEF Drain, Order, AnyToken, Inserts
<1>5. /\ Toks(Append(box \o pending, Drain), Inserts) = Sent \cup Waiting
      /\ Once(Append(box \o pending, Drain), Inserts)
  <2>1. PICK q \in Seq(Order) : q = box \o pending
    BY <1>3, Zenon
  <2>2. Toks(Append(q, Drain), Inserts) = Toks(q, Inserts)
    BY <1>4, AppendToks
  <2>3. Once(q, Inserts) => Once(Append(q, Drain), Inserts)
    BY <1>4, AppendToks, Zenon
  <2>4. QED
    BY <1>3, <2>1, <2>2, <2>3
<1>6. /\ Waiting' = {} /\ Once(pending', Inserts)
      /\ Sent' \subseteq Sent \cup Waiting /\ Once(box', Inserts)
  BY <1>1, <1>2, <1>5, EmptyToks, Zenon DEF Waiting, Sent, Chain
<1>7. /\ Batched' = Batched /\ Held' = Held /\ Written' = Written /\ Denied' = Denied
      /\ Once(batch', Inserts) = Once(batch, Inserts)
  BY <1>1 DEF Batched, Held, Written, Denied
<1>8. Chain' /\ Taken' \subseteq Taken
  BY <1>2, <1>6, <1>7, Zenon DEF Chain, Taken
<1>9. Flush' /\ Kept'
  BY <1>1, FlushSame, KeptSame DEF AnswersInv
<1>10. QED
  BY <1>1, <1>7, <1>8, <1>9, CarryStep, Zenon

---------------------------------------------------------------------------
(* The Engine *)

\* What is written is in the batch.
LEMMA AppendedBatched ==
  ASSUME AnswersInv
  PROVE  /\ Range(appended) \subseteq Batched
         /\ \A i \in DOMAIN batch : batch[i] \in Inserts /\ batch[i].tok \in Batched
<1>1. /\ batch \in Seq(Order) /\ results \in Seq({"ok", "capacity"})
      /\ Len(results) <= Len(batch)
      /\ \A i \in DOMAIN batch : batch[i].op = "insert"
      /\ \A t \in Range(appended) : \E i \in DOMAIN results : batch[i].tok = t
  BY Zenon DEF AnswersInv, Shape, Flush
<1>2. \A i \in DOMAIN results : i \in DOMAIN batch
  BY <1>1
<1>3. \A i \in DOMAIN batch : batch[i] \in Inserts
  BY <1>1 DEF Inserts
<1>4. \A i \in DOMAIN batch : batch[i].tok \in Batched
  BY <1>3 DEF Batched, Toks
<1>5. QED
  BY <1>1, <1>2, <1>3, <1>4, Zenon

\* The Engine takes a command: an insert joins the batch, or is at hand.
LEMMA TakeInv ==
  ASSUME AnswersInv, Shape', EngineTakes
  PROVE  AnswersInv'
<1> USE DEF generation, delivery, memory, engine_, history
<1> DEFINE cmd == Head(box)
           note == Message("yielded", cmd, "ok")
<1>1. /\ box # << >> /\ box' = Tail(box) /\ current = None
      /\ UNCHANGED <<caller, inbox, pending, results, appended, log, acked, refused>>
      /\ \/ UNCHANGED <<batch, current, out>>
         \/ UNCHANGED <<batch, current>> /\ out' = Append(out, note)
         \/ UNCHANGED <<current, out>> /\ batch' = Append(batch, cmd) /\ cmd.op = "insert"
         \/ UNCHANGED <<batch, out>> /\ current' = cmd
  BY Zenon DEF EngineTakes
<1>2. Shape /\ Chain /\ Flush /\ Kept
  BY DEF AnswersInv, Apart
<1>3. box \in Seq(Order) /\ batch \in Seq(Order) /\ out \in Seq(Reply) /\ cmd \in Order
  BY <1>1, <1>2 DEF Shape
<1>4. /\ Sent' \subseteq Sent /\ Once(box', Inserts)
      /\ cmd \in Inserts => cmd.tok \in Sent /\ cmd.tok \notin Sent'
  <2>1. /\ Toks(Tail(box), Inserts) \subseteq Toks(box, Inserts)
        /\ cmd \in Inserts => cmd.tok \in Toks(box, Inserts)
        /\ Once(box, Inserts) => Once(Tail(box), Inserts)
        /\ Once(box, Inserts) /\ cmd \in Inserts => cmd.tok \notin Toks(Tail(box), Inserts)
    BY <1>1, <1>3, TailToks, Zenon
  <2>2. QED
    BY <1>1, <1>2, <2>1, Zenon DEF Sent, Chain
<1>5. /\ Toks(out', Denials) = Toks(out, Denials)
      /\ Toks(out', Successes) = Toks(out, Successes)
  <2>1. note \notin Denials /\ note \notin Successes
    BY Zenon DEF Message, Denials, Successes
  <2>2. note \in Reply
    BY <1>2, <1>3, Zenon DEF Shape, EngineState, Message, Order, Reply
  <2> HIDE DEF note
  <2>3. /\ Toks(Append(out, note), Denials) = Toks(out, Denials)
        /\ Toks(Append(out, note), Successes) = Toks(out, Successes)
    BY <1>3, <2>1, <2>2, AppendToks
  <2>4. QED
    BY <1>1, <2>3, Zenon
<1> HIDE DEF cmd, note
<1>6. Waiting' = Waiting /\ Written' = Written /\ Denied' = Denied
  BY <1>1, <1>5, Zenon DEF Waiting, Written, Denied
<1>7. Kept'
  BY <1>1, <1>2, <1>5, KeptSame, Zenon
<1>8. /\ Batched' = Batched \/ (Batched' = Batched \cup {cmd.tok} /\ Held' = Held /\ cmd \in Inserts)
      /\ Held' = Held \/ (Held' = {cmd.tok} /\ Batched' = Batched /\ cmd \in Inserts)
      /\ Once(batch', Inserts)
  <2>1. CASE UNCHANGED <<batch, current>>
    BY <1>2, <2>1, Zenon DEF Batched, Held, Chain
  <2>2. CASE UNCHANGED current /\ batch' = Append(batch, cmd) /\ cmd.op = "insert"
    <3>1. cmd \in Inserts /\ cmd.tok \notin Batched
      BY <1>2, <1>3, <1>4, <2>2, Zenon DEF Inserts, Chain
    <3>2. /\ Toks(Append(batch, cmd), Inserts) = Toks(batch, Inserts) \cup {cmd.tok}
          /\ Once(batch, Inserts) => Once(Append(batch, cmd), Inserts)
      BY <1>3, <3>1, AppendToks DEF Batched
    <3>3. QED
      BY <1>2, <2>2, <3>1, <3>2, Zenon DEF Batched, Held, Chain
  <2>3. CASE UNCHANGED batch /\ current' = cmd
    <3>1. Held = {}
      BY <1>1 DEF Held
    <3>2. Held' = {} \/ (Held' = {cmd.tok} /\ cmd \in Inserts)
      BY <2>3 DEF Held
    <3>3. QED
      BY <1>2, <2>3, <3>1, <3>2, Zenon DEF Batched, Chain
  <2>4. QED
    BY <1>1, <2>1, <2>2, <2>3, Zenon
<1>9. Once(pending', Inserts)
  BY <1>1, <1>2, Zenon DEF Chain
<1>10. Chain'
  BY <1>2, <1>4, <1>6, <1>8, <1>9 DEF Chain
<1>11. Taken' \subseteq Taken
  BY <1>4, <1>6, <1>8, Zenon DEF Taken
<1>12. Flush'
  <2>1. CASE UNCHANGED batch
    BY <1>1, <1>2, <2>1, FlushSame, Zenon
  <2>2. CASE batch' = Append(batch, cmd) /\ cmd.op = "insert"
    <3>1. /\ Len(batch') = Len(batch) + 1 /\ DOMAIN batch' = 1..(Len(batch) + 1)
          /\ \A i \in 1..Len(batch) : batch'[i] = batch[i]
          /\ batch'[Len(batch) + 1] = cmd
          /\ DOMAIN batch = 1..Len(batch) /\ Len(batch) \in Nat
          /\ Len(results) \in Nat /\ DOMAIN results = 1..Len(results)
      <4>1. results \in Seq({"ok", "capacity"})
        BY <1>2, Zenon DEF Shape
      <4>2. Len(results) \in Nat /\ DOMAIN results = 1..Len(results)
        BY <4>1
      <4>3. /\ DOMAIN batch = 1..Len(batch) /\ Len(batch) \in Nat
            /\ Len(Append(batch, cmd)) = Len(batch) + 1
            /\ DOMAIN Append(batch, cmd) = 1..(Len(batch) + 1)
            /\ \A i \in 1..Len(batch) : Append(batch, cmd)[i] = batch[i]
            /\ Append(batch, cmd)[Len(batch) + 1] = cmd
        BY <1>3
      <4> QED BY <2>2, <4>2, <4>3, Zenon
    <3>0. Len(results) <= Len(batch) /\ \A i \in DOMAIN batch : batch[i].op = "insert"
      BY <1>2, Zenon DEF Flush
    <3>2. \A i \in DOMAIN results : batch'[i] = batch[i]
      BY <3>0, <3>1
    <3>3. \A i \in DOMAIN batch' : batch'[i].op = "insert"
      BY <2>2, <3>0, <3>1
    <3>4. Len(results) <= Len(batch')
      BY <3>0, <3>1
    <3>5. QED
      BY <1>1, <1>2, <3>2, <3>3, <3>4 DEF Flush
  <2>3. QED
    BY <1>1, <2>1, <2>2, Zenon
<1>13. QED
  BY <1>1, <1>6, <1>7, <1>10, <1>11, <1>12, CarryStep, Zenon

\* The next insert of the batch is written, or there is no room for it.
LEMMA FlushCommandInv ==
  ASSUME AnswersInv, Shape', FlushCommand
  PROVE  AnswersInv'
<1> USE DEF generation, delivery, memory, engine_, history
<1> DEFINE n == Len(results) + 1
<1>1. /\ UNCHANGED <<caller, inbox, pending, box, batch, current, out, log, acked, refused>>
      /\ Len(results) < Len(batch)
      /\ \/ /\ results' = Append(results, "ok")
            /\ appended' = Append(appended, batch[n].tok)
         \/ results' = Append(results, "capacity") /\ appended' = appended
  BY Zenon DEF FlushCommand
<1>2. Shape /\ Flush /\ Kept /\ Chain
  BY Zenon DEF AnswersInv, Apart
<1>3. /\ results \in Seq({"ok", "capacity"}) /\ appended \in Seq(AnyToken)
      /\ batch \in Seq(Order) /\ appended' \in Seq(AnyToken)
  BY <1>2, Zenon DEF Shape
<1>4. n \in DOMAIN batch /\ n = Len(results) + 1 /\ n \notin DOMAIN results
  BY <1>1, <1>3
<1> HIDE DEF n
<1>5. \E r \in {"ok", "capacity"} :
        /\ DOMAIN results' = DOMAIN results \cup {n} /\ Len(results') = n
        /\ \A i \in DOMAIN results : results'[i] = results[i]
        /\ results'[n] = r
        /\ r = "ok" => appended' = Append(appended, batch[n].tok)
        /\ r = "ok" \/ appended' = appended
  <2>1. ASSUME NEW r \in {"ok", "capacity"}, results' = Append(results, r)
        PROVE  /\ DOMAIN results' = DOMAIN results \cup {n} /\ Len(results') = n
               /\ \A i \in DOMAIN results : results'[i] = results[i]
               /\ results'[n] = r
    BY <1>3, <1>4, <2>1
  <2>2. CASE results' = Append(results, "ok") /\ appended' = Append(appended, batch[n].tok)
    BY <2>1, <2>2, Zenon
  <2>3. CASE results' = Append(results, "capacity") /\ appended' = appended
    BY <2>1, <2>3, Zenon
  <2>4. QED
    BY <1>1, <2>2, <2>3, Zenon DEF n
<1>6. \/ Range(appended') = Range(appended) \cup {batch[n].tok} /\ results'[n] = "ok"
      \/ Range(appended') = Range(appended) /\ results'[n] = "capacity"
  <2>0. batch[n] \in Order
    BY <1>3, <1>4
  <2>1. batch[n].tok \in AnyToken
    BY <2>0, Zenon DEF Order
  <2>2. Range(Append(appended, batch[n].tok)) = Range(appended) \cup {batch[n].tok}
    BY <1>3, <2>1, AppendRange
  <2>3. QED
    BY <1>5, <2>2, Zenon
<1>7. Len(results') <= Len(batch')
  BY <1>1, <1>3, <1>4, <1>5
<1>8. Flush'
  BY <1>1, <1>2, <1>4, <1>5, <1>6, <1>7 DEF Flush
<1>9. Kept'
  BY <1>1, <1>2, KeptSame, Zenon
<1>10. /\ Waiting' = Waiting /\ Sent' = Sent /\ Batched' = Batched /\ Held' = Held
       /\ Written' = Written /\ Denied' = Denied
  BY <1>1, Zenon DEF Waiting, Sent, Batched, Held, Written, Denied
<1>11. Chain' /\ Taken' = Taken
  BY <1>1, <1>2, <1>10, Zenon DEF Chain, Taken
<1>12. QED
  BY <1>1, <1>8, <1>9, <1>10, <1>11, CarryStep, Zenon

\* The sync: what is answered with success is in the log, and nothing else is.
LEMMA FlushFinishInv ==
  ASSUME AnswersInv, Shape', FlushFinish
  PROVE  AnswersInv'
<1> USE DEF generation, delivery, memory, engine_, history
<1> DEFINE msgs == [i \in 1..Len(batch) |-> Message("completed", batch[i], results[i])]
<1>1. /\ UNCHANGED <<caller, inbox, pending, box, current, acked, refused>>
      /\ Len(results) = Len(batch)
      /\ log' = log \o appended /\ out' = out \o msgs
      /\ batch' = << >> /\ results' = << >> /\ appended' = << >>
  BY Zenon DEF FlushFinish, Synced
<1>2. Shape /\ Flush /\ Kept /\ Chain
  BY DEF AnswersInv, Apart
<1>3. /\ batch \in Seq(Order) /\ results \in Seq({"ok", "capacity"}) /\ out \in Seq(Reply)
      /\ log \in Seq(AnyToken) /\ appended \in Seq(AnyToken) /\ engine.gen \in Nat
      /\ DOMAIN batch = 1..Len(batch) /\ DOMAIN results = 1..Len(batch)
  BY <1>1, <1>2 DEF Shape, EngineState
<1>4. \A i \in 1..Len(batch) :
        /\ msgs[i] \in Reply /\ msgs[i].tok = batch[i].tok /\ msgs[i].kind = "completed"
        /\ msgs[i].op = "insert" /\ msgs[i].result = results[i]
  <2>1. \A i \in 1..Len(batch) : batch[i] \in Order /\ results[i] \in {"ok", "capacity"}
    BY <1>3
  <2>2. \A i \in 1..Len(batch) : batch[i].op = "insert"
    BY <1>2, <1>3, Zenon DEF Flush
  <2>3. QED
    BY <1>3, <2>1, <2>2, Zenon DEF Message, Order, Reply
<1>5. msgs \in Seq(Reply) /\ DOMAIN msgs = 1..Len(batch)
  <2>1. Len(batch) \in Nat
    BY <1>3
  <2>2. msgs \in [1..Len(batch) -> Reply]
    BY <1>4, Zenon
  <2> HIDE DEF msgs
  <2>3. QED
    BY <2>1, <2>2
<1> HIDE DEF msgs
<1>6. /\ Toks(out', Denials) = Toks(out, Denials) \cup Toks(msgs, Denials)
      /\ Toks(out', Successes) = Toks(out, Successes) \cup Toks(msgs, Successes)
  <2>1. /\ Toks(out \o msgs, Denials) = Toks(out, Denials) \cup Toks(msgs, Denials)
        /\ Toks(out \o msgs, Successes) = Toks(out, Successes) \cup Toks(msgs, Successes)
    BY <1>3, <1>5, ConcatToks
  <2>2. QED
    BY <1>1, <2>1, Zenon
<1>7. Written' = Written \cup Range(appended)
  BY <1>1, <1>3, ConcatRange DEF Written
<1>8. Toks(msgs, Successes) \subseteq Range(appended)
  <2>1. \A i \in 1..Len(batch) : msgs[i] \in Successes => results[i] = "ok"
    BY <1>4, Zenon DEF Successes
  <2>2. \A i \in 1..Len(batch) : msgs[i] \in Successes => msgs[i].tok \in Range(appended)
    BY <1>2, <1>3, <1>4, <2>1 DEF Flush
  <2>3. QED
    BY <1>5, <2>2, Zenon DEF Toks
<1>9. Toks(msgs, Denials) \subseteq Batched \ Range(appended)
  <2>1. ASSUME NEW i \in 1..Len(batch), msgs[i] \in Denials
        PROVE  batch[i].tok \in Batched \ Range(appended)
    <3>1. batch[i] \in Inserts /\ batch[i].tok \in Batched
      BY <1>3, AppendedBatched, Zenon
    <3>2. results[i] # "ok"
      BY <1>4, <2>1, Zenon DEF Denials
    <3>3. ASSUME batch[i].tok \in Range(appended)
          PROVE  FALSE
      <4>1. PICK j \in DOMAIN results : results[j] = "ok" /\ batch[j].tok = batch[i].tok
        BY <1>2, <3>3, Zenon DEF Flush
      <4>2. j \in DOMAIN batch /\ batch[j] \in Inserts
        BY <1>3, <4>1, AppendedBatched, Zenon
      <4>3. i = j
        BY <1>2, <1>3, <3>1, <4>1, <4>2, Zenon DEF Chain, Once
      <4>4. QED
        BY <3>2, <4>1, <4>3
    <3>4. QED
      BY <3>1, <3>3, Zenon
  <2>2. QED
    BY <1>4, <1>5, <2>1 DEF Toks
<1>10. Range(appended) \subseteq Batched
  BY AppendedBatched
<1>11. /\ Waiting' = Waiting /\ Sent' = Sent /\ Held' = Held
       /\ Batched' = {} /\ Once(batch', Inserts)
       /\ Denied' = Denied \cup Toks(msgs, Denials)
  BY <1>1, <1>6, EmptyToks, Zenon DEF Waiting, Sent, Held, Batched, Denied
<1>12. Chain'
  BY <1>1, <1>2, <1>7, <1>9, <1>10, <1>11, Zenon DEF Chain
<1>13. Taken' \subseteq Taken /\ Denied' \subseteq Taken \cup Denied
  BY <1>7, <1>9, <1>10, <1>11 DEF Taken
<1>14. Flush'
  <2>1. Range(<< >>) = {}
    BY DEF Range
  <2>2. QED
    BY <1>1, <2>1 DEF Flush
<1>15. Kept'
  BY <1>1, <1>2, <1>6, <1>7, <1>8, Zenon DEF Kept, Written
<1>16. QED
  BY <1>1, <1>12, <1>13, <1>14, <1>15, CarryStep, Zenon

\* A command that is not part of a batch: a read, a drain signal, or an insert
\* that is refused because the generation drains.
LEMMA EngineExecutesInv ==
  ASSUME AnswersInv, Shape', EngineExecutes
  PROVE  AnswersInv'
<1> USE DEF generation, delivery, memory, engine_, history
<1>1. /\ UNCHANGED <<caller, inbox, pending, box, batch, results, appended, log, acked, refused>>
      /\ current # None /\ current' = None
      /\ \/ out' = out
         \/ current.op = "drain" /\ out' = Append(out, Message("drained", current, "ok"))
         \/ current.op = "read" /\ out' = Append(out, Message("completed", current, "ok"))
         \/ /\ current.op \notin {"drain", "read"}
            /\ out' = Append(out, Message("completed", current, "draining"))
  BY DEF EngineExecutes
<1>2. Shape /\ Flush /\ Kept /\ Chain
  BY DEF AnswersInv, Apart
<1>3. out \in Seq(Reply) /\ current \in Order /\ current.op # "schedule" /\ engine.gen \in Nat
  BY <1>1, <1>2, Zenon DEF Shape, EngineState
<1>4. PICK note \in Reply :
        /\ note \notin Successes /\ (note \in Denials => note.tok \in Held)
        /\ out' = out \/ out' = Append(out, note)
  <2>1. \A k \in {"drained", "completed"}, r \in {"ok", "draining"} :
          /\ Message(k, current, r) \in Reply
          /\ Message(k, current, r).kind = k /\ Message(k, current, r).result = r
          /\ Message(k, current, r).tok = current.tok /\ Message(k, current, r).op = current.op
    BY <1>3, Zenon DEF Message, Order, Reply
  <2>2. CASE out' = out \/ (/\ current.op = "drain"
                            /\ out' = Append(out, Message("drained", current, "ok")))
    BY <2>1, <2>2, Zenon DEF Successes, Denials
  <2>3. CASE current.op = "read" /\ out' = Append(out, Message("completed", current, "ok"))
    BY <2>1, <2>3, Zenon DEF Successes, Denials
  <2>4. CASE /\ current.op \notin {"drain", "read"}
             /\ out' = Append(out, Message("completed", current, "draining"))
    <3>1. current.op = "insert"
      BY <1>3, <2>4 DEF Order, Op
    <3>2. Held = {current.tok}
      BY <1>1, <1>3, <3>1, Zenon DEF Held, Inserts
    <3>3. QED
      BY <2>1, <2>4, <3>2, Zenon DEF Successes
  <2>5. QED
    BY <1>1, <2>2, <2>3, <2>4, Zenon
<1>5. /\ Toks(out', Successes) = Toks(out, Successes)
      /\ Toks(out', Denials) \subseteq Toks(out, Denials) \cup Held
  <2>1. /\ Toks(Append(out, note), Successes) = Toks(out, Successes)
        /\ note \notin Denials => Toks(Append(out, note), Denials) = Toks(out, Denials)
        /\ note \in Denials =>
             Toks(Append(out, note), Denials) = Toks(out, Denials) \cup {note.tok}
    BY <1>3, <1>4, AppendToks
  <2>2. QED
    BY <1>4, <2>1, Zenon
<1>6. /\ Waiting' = Waiting /\ Sent' = Sent /\ Batched' = Batched /\ Written' = Written
      /\ Held' = {} /\ Denied' \subseteq Denied \cup Held
  BY <1>1, <1>5, Zenon DEF Waiting, Sent, Batched, Written, Held, Denied
<1>7. Chain'
  BY <1>1, <1>2, <1>6, Zenon DEF Chain
<1>8. Taken' \subseteq Taken /\ Denied' \subseteq Taken \cup Denied
  BY <1>6, Zenon DEF Taken
<1>9. Flush' /\ Kept'
  BY <1>1, <1>2, <1>5, FlushSame, KeptSame, Zenon
<1>10. QED
  BY <1>1, <1>7, <1>8, <1>9, CarryStep, Zenon

\* The Engine is killed: a prefix of what it wrote is found again, the rest of
\* what it held is gone, and what it had answered stays.
LEMMA EngineDiesInv ==
  ASSUME AnswersInv, Shape', EngineDies
  PROVE  AnswersInv'
<1> USE DEF generation, delivery, memory, engine_, history
<1>1. PICK k \in 0..Len(appended) : log' = log \o SubSeq(appended, 1, k)
  BY Zenon DEF EngineDies
<1>2. /\ UNCHANGED <<caller, inbox, pending, out, acked, refused>>
      /\ box' = << >> /\ batch' = << >> /\ results' = << >> /\ appended' = << >>
      /\ current' = None
  BY DEF EngineDies
<1>3. Shape /\ Flush /\ Kept /\ Chain
  BY DEF AnswersInv, Apart
<1>4. log \in Seq(AnyToken) /\ appended \in Seq(AnyToken)
  BY <1>3, Zenon DEF Shape
<1>5. /\ SubSeq(appended, 1, k) \in Seq(AnyToken)
      /\ Range(SubSeq(appended, 1, k)) \subseteq Range(appended)
  <2>1. /\ SubSeq(appended, 1, k) \in Seq(AnyToken)
        /\ DOMAIN SubSeq(appended, 1, k) = 1..k
        /\ \A i \in 1..k : SubSeq(appended, 1, k)[i] = appended[i]
    BY <1>4
  <2>2. 1..k \subseteq DOMAIN appended
    BY <1>4
  <2>3. QED
    BY <2>1, <2>2, Zenon DEF Range
<1>6. Written' = Written \cup Range(SubSeq(appended, 1, k))
  <2>1. PICK q \in Seq(AnyToken) : q = SubSeq(appended, 1, k)
    BY <1>5, Zenon
  <2>2. Range(log \o q) = Range(log) \cup Range(q)
    BY <1>4, ConcatRange
  <2>3. QED
    BY <1>1, <2>1, <2>2, Zenon DEF Written
<1>7. Range(appended) \subseteq Batched
  BY AppendedBatched
<1>8. /\ Waiting' = Waiting /\ Denied' = Denied /\ Sent' = {} /\ Batched' = {} /\ Held' = {}
      /\ Once(box', Inserts) /\ Once(batch', Inserts)
  BY <1>2, EmptyToks, Zenon DEF Waiting, Denied, Sent, Batched, Held
<1>9. Once(pending', Inserts)
  BY <1>2, <1>3, Zenon DEF Chain
<1>10. Chain'
  BY <1>3, <1>5, <1>6, <1>7, <1>8, <1>9, Zenon DEF Chain
<1>11. Taken' \subseteq Taken /\ Denied' \subseteq Taken \cup Denied
  BY <1>5, <1>6, <1>7, <1>8, Zenon DEF Taken
<1>12. Flush'
  <2>1. Range(<< >>) = {}
    BY DEF Range
  <2>2. QED
    BY <1>2, <2>1 DEF Flush
<1>13. Kept'
  BY <1>2, <1>3, <1>6 DEF Kept, Written
<1>14. QED
  BY <1>2, <1>10, <1>11, <1>12, <1>13, CarryStep, Zenon

---------------------------------------------------------------------------
(* The theorem *)

\* Nothing was asked, nothing is in flight.
LEMMA AnswersInit == Init => AnswersInv
<1> SUFFICES ASSUME Init
             PROVE  AnswersInv
  OBVIOUS
<1>1. Shape
  BY ShapeInit
<1>2. Range(<< >>) = {}
  BY DEF Range
<1>3. Flush /\ Kept
  <2>1. /\ batch = << >> /\ results = << >> /\ appended = << >> /\ out = << >> /\ log = << >>
        /\ acked = {}
    BY Zenon DEF Init
  <2>2. Flush
    BY <1>2, <2>1 DEF Flush
  <2>3. Kept
    BY <1>2, <2>1, EmptyToks, Zenon DEF Kept
  <2>4. QED
    BY <2>2, <2>3
<1>4. /\ Waiting = {} /\ Sent = {} /\ Batched = {} /\ Held = {} /\ Written = {} /\ Denied = {}
      /\ \A c \in Client : Mailed(c) = {} /\ inbox[c] = << >>
  BY <1>2, EmptyToks, Zenon DEF Init, Waiting, Sent, Batched, Held, Written, Denied, Mailed
<1>5. Once(pending, Inserts) /\ Once(box, Inserts) /\ Once(batch, Inserts)
  BY EmptyToks, Zenon DEF Init
<1>6. Apart
  <2>1. \A c \in Client : Once(inbox[c], Submits)
    BY <1>4, EmptyToks, Zenon
  <2>2. QED
    BY <1>4, <1>5, <2>1, Zenon DEF Apart, Chain
<1>7. Abroad = {}
  BY <1>4 DEF Abroad, Taken
<1>8. Issued
  <2>1. \A c \in Client : DOMAIN inbox[c] = {}
    BY <1>4
  <2>2. Denied = {}
    BY <1>4
  <2>3. QED
    BY <1>7, <2>1, <2>2, Zenon DEF Issued
<1>9. QED
  BY <1>1, <1>3, <1>6, <1>8 DEF AnswersInv

\* Each step keeps the invariant.
LEMMA AnswersStep == AnswersInv /\ [Next]_vars => AnswersInv'
<1> SUFFICES ASSUME AnswersInv, [Next]_vars
             PROVE  AnswersInv'
  OBVIOUS
<1>1. Shape'
  BY ShapeStep DEF AnswersInv
<1>2. ASSUME NEW c \in Client, ClientStep(c)
      PROVE  AnswersInv'
  BY <1>1, <1>2, RequestInv, ClaimInv, SenderInv, Zenon DEF ClientStep
<1>3. ASSUME NEW c \in Client, GuardianStep(c)
      PROVE  AnswersInv'
  BY <1>1, <1>3, LetterInv, SubmitInv DEF GuardianStep
<1>4. CASE \E x \in coordinator : CoordinatorDone(x)
  BY <1>1, <1>4, CoordinatorInv
<1>5. CASE \/ \E expired \in SUBSET Claimed : Reap(expired)
           \/ YieldedMsg \/ DrainedMsg \/ Revoke \/ ForcedRestart \/ OperationStarting
           \/ EngineStarts \/ FlushBegin \/ UNCHANGED vars
  BY <1>1, <1>5, GenerationInv
<1>6. CASE CompletedMsg \/ Restart
  BY <1>1, <1>6, CompletedInv, RestartInv
<1>7. CASE EngineTakes \/ FlushCommand \/ FlushFinish \/ EngineExecutes \/ EngineDies
  BY <1>1, <1>7, TakeInv, FlushCommandInv, FlushFinishInv, EngineExecutesInv, EngineDiesInv
<1>8. QED
  BY <1>2, <1>3, <1>4, <1>5, <1>6, <1>7, Zenon DEF Next

\* What a client is told of its insert is true for good: an insert answered with
\* success is in the log, and one that was refused is not written then or later,
\* through any number of restarts and of deaths of the Engine in the middle of a
\* flush.
THEOREM AnswersAreTrue == Spec => []AnswersTrue
<1>1. AnswersInv => AnswersTrue
  <2>1. AnswersInv => Range(appended) \subseteq Batched
    BY AppendedBatched
  <2>2. QED
    BY <2>1, Zenon DEF AnswersInv, Kept, Apart, Chain, Written, Denied, AnswersTrue, AckedDurable,
                RefusedNeverApplied
<1>2. QED
  BY <1>1, AnswersInit, AnswersStep, PTL DEF Spec
=============================================================================
