------------------------- MODULE AdmissionFrontier --------------------------
(***************************************************************************)
(* A restart that drains closes the generation behind the last command that *)
(* was submitted before it, and the byte counter of the first generation    *)
(* holds what is charged: for any number of clients, slots, requests and     *)
(* restarts, any window, batch and limit.                                    *)
(*                                                                          *)
(* First, what the messages between callers, guardian and Engine are, in    *)
(* every state, and facts about queues of them.                             *)
(***************************************************************************)
EXTENDS Admission, TLAPS

\* The provers that a step is tried with, in this order.
USE SMT, Zenon, Z3

---------------------------------------------------------------------------
(* Messages and queues *)

\* The tokens of the elements of s that are in the set K.
Toks(s, K) == {s[i].tok : i \in {j \in DOMAIN s : s[j] \in K}}

\* No two elements of s that are in K have the same token.
Once(s, K) ==
  \A i, j \in DOMAIN s : s[i] \in K /\ s[j] \in K /\ s[i].tok = s[j].tok => i = j

\* A token that may be given out yet; None is the token of the drain signal.
AnyToken == (Client \X Nat) \cup {None}

CallerState == [pc : {"idle", "started", "reserving", "granted", "submitting", "dead"},
                n : Nat, op : Op, gen : Nat, key : Key \cup {None}]
EngineState == [up : BOOLEAN, gen : Nat, draining : BOOLEAN]
Mail == [kind : {"reserve", "submit", "cancel", "down"}, tok : Client \X Nat,
         key : Key \cup {None}, op : Op, gen : Nat]
Order == [tok : AnyToken, key : Key \cup {None}, op : Op \cup {"drain"}]
Reply == [kind : {"completed", "yielded", "drained"}, tok : AnyToken,
          key : Key \cup {None}, op : Op \cup {"drain"}, gen : Nat,
          result : {"ok", "capacity", "draining"}]

\* What the messages and the callers are, as far as the argument needs it.
Shape ==
  /\ caller \in [Client -> CallerState]
  /\ inbox \in [Client -> Seq(Mail)]
  /\ gen \in Nat /\ engine \in EngineState
  /\ pending \in Seq(Order) /\ box \in Seq(Order) /\ batch \in Seq(Order)
  /\ out \in Seq(Reply)
  /\ results \in Seq({"ok", "capacity"})
  /\ appended \in Seq(AnyToken) /\ log \in Seq(AnyToken)
  /\ current # None => current \in Order /\ current.op # "schedule"
  /\ coordinator \subseteq [cmd : {cmd \in Order : cmd.op = "schedule"}, gen : Nat]

Inserts == {cmd \in Order : cmd.op = "insert"}

\* The inserts that wait at the guardian and at the Engine.
Waiting == Toks(pending, Inserts)
Sent == Toks(box, Inserts)

\* The caller has a request and has not submitted it.
Early(c) == caller[c].pc \in {"started", "reserving", "granted"}

\* Of client c: not yet submitted.
Unsent(c, t) ==
  /\ t \in Client \X Nat /\ t[1] = c
  /\ t[2] > caller[c].n \/ (t[2] = caller[c].n /\ Early(c))

---------------------------------------------------------------------------
(* Tokens of sequences *)

\* An empty sequence has no tokens.
LEMMA EmptyToks ==
  ASSUME NEW K
  PROVE  Toks(<< >>, K) = {} /\ Once(<< >>, K)
BY DEF Toks, Once

\* Receiving the first message of a mailbox takes its token out of it.
LEMMA TailToks ==
  ASSUME NEW S, NEW K, NEW s \in Seq(S), s # << >>
  PROVE  /\ Toks(Tail(s), K) \subseteq Toks(s, K)
         /\ Head(s) \in K => Head(s).tok \in Toks(s, K)
         /\ Once(s, K) => Once(Tail(s), K)
         /\ Once(s, K) /\ Head(s) \in K => Head(s).tok \notin Toks(Tail(s), K)
<1>1. /\ Len(s) \in Nat \ {0} /\ DOMAIN s = 1..Len(s) /\ Head(s) = s[1]
      /\ DOMAIN Tail(s) = 1..(Len(s) - 1)
      /\ \A i \in 1..(Len(s) - 1) : Tail(s)[i] = s[i + 1]
  OBVIOUS
<1>2. \A i \in DOMAIN Tail(s) : i + 1 \in DOMAIN s /\ Tail(s)[i] = s[i + 1] /\ i + 1 # 1
  BY <1>1
<1>3. 1 \in DOMAIN s
  BY <1>1
<1>4. Once(s, K) => Once(Tail(s), K)
  <2>1. SUFFICES ASSUME Once(s, K), NEW i \in DOMAIN Tail(s), NEW j \in DOMAIN Tail(s),
                        Tail(s)[i] \in K, Tail(s)[j] \in K, Tail(s)[i].tok = Tail(s)[j].tok
                 PROVE  i = j
    BY DEF Once
  <2>2. i + 1 = j + 1
    BY <1>2, <2>1 DEF Once
  <2>3. QED
    BY <2>2, <1>1
<1>5. QED
  BY <1>1, <1>2, <1>3, <1>4 DEF Toks, Once

\* Sending a message adds its token, if it counts.
LEMMA AppendToks ==
  ASSUME NEW S, NEW K, NEW s \in Seq(S), NEW e \in S
  PROVE  /\ e \in K => Toks(Append(s, e), K) = Toks(s, K) \cup {e.tok}
         /\ e \notin K => Toks(Append(s, e), K) = Toks(s, K)
         /\ Once(s, K) /\ (e \in K => e.tok \notin Toks(s, K)) => Once(Append(s, e), K)
<1>1. /\ Len(s) \in Nat /\ DOMAIN s = 1..Len(s)
      /\ DOMAIN Append(s, e) = 1..(Len(s) + 1)
      /\ \A i \in DOMAIN s : Append(s, e)[i] = s[i]
      /\ Append(s, e)[Len(s) + 1] = e
  OBVIOUS
<1>2. DOMAIN Append(s, e) = DOMAIN s \cup {Len(s) + 1} /\ Len(s) + 1 \notin DOMAIN s
  BY <1>1
<1>3. /\ e \in K => Toks(Append(s, e), K) = Toks(s, K) \cup {e.tok}
      /\ e \notin K => Toks(Append(s, e), K) = Toks(s, K)
  BY <1>1, <1>2 DEF Toks
<1>4. Once(s, K) /\ (e \in K => e.tok \notin Toks(s, K)) => Once(Append(s, e), K)
  BY <1>1, <1>2 DEF Toks, Once
<1>5. QED
  BY <1>3, <1>4

\* The elements of two sequences, one after the other.
LEMMA ConcatAt ==
  ASSUME NEW S, NEW s \in Seq(S), NEW t \in Seq(S)
  PROVE  /\ \A i \in DOMAIN s : i \in DOMAIN (s \o t) /\ (s \o t)[i] = s[i]
         /\ \A i \in DOMAIN t : Len(s) + i \in DOMAIN (s \o t) /\ (s \o t)[Len(s) + i] = t[i]
         /\ \A i \in DOMAIN (s \o t) :
              \/ i \in DOMAIN s /\ (s \o t)[i] = s[i]
              \/ i - Len(s) \in DOMAIN t /\ (s \o t)[i] = t[i - Len(s)]
         /\ DOMAIN (s \o t) \subseteq Nat /\ Len(s) \in Nat
<1>1. /\ Len(s) \in Nat /\ DOMAIN s = 1..Len(s) /\ Len(t) \in Nat /\ DOMAIN t = 1..Len(t)
      /\ DOMAIN (s \o t) = 1..(Len(s) + Len(t))
      /\ \A i \in DOMAIN (s \o t) : (s \o t)[i] = IF i <= Len(s) THEN s[i] ELSE t[i - Len(s)]
  OBVIOUS
<1>2. QED
  BY <1>1

\* Two sequences with no token in common.
LEMMA ConcatToks ==
  ASSUME NEW S, NEW K, NEW s \in Seq(S), NEW t \in Seq(S)
  PROVE  /\ Toks(s \o t, K) = Toks(s, K) \cup Toks(t, K)
         /\ Once(s, K) /\ Once(t, K) /\ Toks(s, K) \cap Toks(t, K) = {} => Once(s \o t, K)
<1>2. /\ \A i \in DOMAIN s : i \in DOMAIN (s \o t) /\ (s \o t)[i] = s[i]
      /\ \A i \in DOMAIN t : Len(s) + i \in DOMAIN (s \o t) /\ (s \o t)[Len(s) + i] = t[i]
      /\ \A i \in DOMAIN (s \o t) :
           \/ i \in DOMAIN s /\ (s \o t)[i] = s[i]
           \/ i - Len(s) \in DOMAIN t /\ (s \o t)[i] = t[i - Len(s)]
      /\ DOMAIN (s \o t) \subseteq Nat /\ Len(s) \in Nat
  BY ConcatAt
<1>3. Toks(s \o t, K) \subseteq Toks(s, K) \cup Toks(t, K)
  BY <1>2 DEF Toks
<1>4. Toks(s, K) \subseteq Toks(s \o t, K) /\ Toks(t, K) \subseteq Toks(s \o t, K)
  <2>1. Toks(s, K) \subseteq Toks(s \o t, K)
    BY <1>2 DEF Toks
  <2>2. ASSUME NEW x \in Toks(t, K)
        PROVE  x \in Toks(s \o t, K)
    <3>1. PICK i \in DOMAIN t : t[i] \in K /\ x = t[i].tok
      BY DEF Toks
    <3>2. QED
      BY <1>2, <3>1, Zenon DEF Toks
  <2>3. QED
    BY <2>1, <2>2
<1>5. ASSUME Once(s, K), Once(t, K), Toks(s, K) \cap Toks(t, K) = {}
      PROVE  Once(s \o t, K)
  <2>1. SUFFICES ASSUME NEW i \in DOMAIN (s \o t), NEW j \in DOMAIN (s \o t),
                        (s \o t)[i] \in K, (s \o t)[j] \in K,
                        (s \o t)[i].tok = (s \o t)[j].tok
                 PROVE  i = j
    BY DEF Once
  <2>2. \A k \in DOMAIN s : s[k] \in K => s[k].tok \in Toks(s, K)
    BY DEF Toks
  <2>3. \A k \in DOMAIN t : t[k] \in K => t[k].tok \in Toks(t, K)
    BY DEF Toks
  <2>4. CASE i \in DOMAIN s /\ (s \o t)[i] = s[i] /\ j \in DOMAIN s /\ (s \o t)[j] = s[j]
    BY <2>1, <2>4, <1>5 DEF Once
  <2>5. CASE /\ i - Len(s) \in DOMAIN t /\ (s \o t)[i] = t[i - Len(s)]
             /\ j - Len(s) \in DOMAIN t /\ (s \o t)[j] = t[j - Len(s)]
    <3>1. i - Len(s) = j - Len(s)
      BY <2>1, <2>5, <1>5 DEF Once
    <3>2. QED
      BY <3>1, <1>2
  <2>6. QED
    BY <1>2, <1>5, <2>1, <2>2, <2>3, <2>4, <2>5
<1>6. QED
  BY <1>3, <1>4, <1>5

\* A queue that is cut in two shares its tokens out.
LEMMA SplitToks ==
  ASSUME NEW S, NEW K, NEW s \in Seq(S), NEW k \in 0..Len(s)
  PROVE  LET front == SubSeq(s, 1, k)
             rest == SubSeq(s, k + 1, Len(s))
         IN  /\ front \in Seq(S) /\ rest \in Seq(S)
             /\ Toks(front, K) \subseteq Toks(s, K) /\ Toks(rest, K) \subseteq Toks(s, K)
             /\ Once(s, K) => /\ Once(front, K) /\ Once(rest, K)
                              /\ Toks(front, K) \cap Toks(rest, K) = {}
<1> DEFINE front == SubSeq(s, 1, k)
           rest == SubSeq(s, k + 1, Len(s))
<1>1. /\ Len(s) \in Nat /\ DOMAIN s = 1..Len(s)
      /\ front \in Seq(S) /\ DOMAIN front = 1..k
      /\ rest \in Seq(S) /\ DOMAIN rest = 1..(Len(s) - k)
      /\ \A i \in 1..k : front[i] = s[i]
      /\ \A i \in 1..(Len(s) - k) : rest[i] = s[k + i]
  OBVIOUS
<1> HIDE DEF front, rest
<1>2. /\ \A i \in DOMAIN front : i \in DOMAIN s /\ front[i] = s[i]
      /\ \A i \in DOMAIN rest : k + i \in DOMAIN s /\ rest[i] = s[k + i]
      /\ \A i \in DOMAIN front, j \in DOMAIN rest : i # k + j
      /\ \A i, j \in DOMAIN rest : k + i = k + j => i = j
  BY <1>1
<1>3. Toks(front, K) \subseteq Toks(s, K) /\ Toks(rest, K) \subseteq Toks(s, K)
  BY <1>2 DEF Toks
<1>4. ASSUME Once(s, K)
      PROVE  /\ Once(front, K) /\ Once(rest, K)
             /\ Toks(front, K) \cap Toks(rest, K) = {}
  <2>1. Once(front, K) /\ Once(rest, K)
    BY <1>2, <1>4 DEF Once
  <2>2. ASSUME NEW x \in Toks(front, K), x \in Toks(rest, K)
        PROVE  FALSE
    <3>1. PICK i \in DOMAIN front : front[i] \in K /\ x = front[i].tok
      BY DEF Toks
    <3>2. PICK j \in DOMAIN rest : rest[j] \in K /\ x = rest[j].tok
      BY <2>2 DEF Toks
    <3>3. QED
      BY <1>2, <1>4, <3>1, <3>2, Zenon DEF Once
  <2>3. QED
    BY <2>1, <2>2
<1>5. QED
  BY <1>1, <1>3, <1>4 DEF front, rest

---------------------------------------------------------------------------
(* The shape of messages *)

\* dispatch_commands hands over a front part of the queue, in order: what that
\* does to the two queues.
LEMMA DispatchMoves ==
  ASSUME NEW p \in Seq(Order), NEW a, box \in Seq(Order), Dispatch(p, a, Window)
  PROVE  /\ pending' \in Seq(Order) /\ box' \in Seq(Order)
         /\ Waiting' \subseteq Toks(p, Inserts)
         /\ Sent' \subseteq Sent \cup Toks(p, Inserts)
         /\ Once(p, Inserts) /\ Once(box, Inserts) /\ Toks(p, Inserts) \cap Sent = {}
            => /\ Once(pending', Inserts) /\ Once(box', Inserts)
               /\ Waiting' \cap Sent' = {}
<1>1. PICK k \in 0..Len(p) :
           /\ pending' = SubSeq(p, k + 1, Len(p))
           /\ box' = box \o SubSeq(p, 1, k) \/ box' = box
  BY Zenon DEF Dispatch
<1> DEFINE front == SubSeq(p, 1, k)
           rest == SubSeq(p, k + 1, Len(p))
<1>2. /\ front \in Seq(Order) /\ rest \in Seq(Order)
      /\ Toks(front, Inserts) \subseteq Toks(p, Inserts)
      /\ Toks(rest, Inserts) \subseteq Toks(p, Inserts)
      /\ Once(p, Inserts) => /\ Once(front, Inserts) /\ Once(rest, Inserts)
                             /\ Toks(front, Inserts) \cap Toks(rest, Inserts) = {}
  BY SplitToks, Zenon
<1> HIDE DEF front, rest
<1>4. /\ Toks(box \o front, Inserts) = Sent \cup Toks(front, Inserts)
      /\ box \o front \in Seq(Order)
      /\ Once(box, Inserts) /\ Once(front, Inserts) /\ Sent \cap Toks(front, Inserts) = {}
         => Once(box \o front, Inserts)
  BY <1>2, ConcatToks DEF Sent
<1>5. /\ Waiting' = Toks(rest, Inserts) /\ pending' = rest
      /\ \/ box' = box \o front /\ Sent' = Toks(box \o front, Inserts)
         \/ box' = box /\ Sent' = Sent
  BY <1>1, Zenon DEF Waiting, Sent, front, rest
<1>6. QED
  BY <1>2, <1>4, <1>5, Zenon

\* The caller that a message names.
LEMMA TokenShape ==
  ASSUME Shape, NEW c \in Client
  PROVE  TokenOf(c) \in Client \X Nat
BY DEF Shape, CallerState, TokenOf

\* A caller moves on.
LEMMA CallerMoves ==
  ASSUME Shape, NEW c,
         NEW pc \in {"idle", "started", "reserving", "granted", "submitting", "dead"}
  PROVE  [caller EXCEPT ![c].pc = pc] \in [Client -> CallerState]
<1>1. \A d \in Client : [caller[d] EXCEPT !.pc = pc] \in CallerState
  BY Zenon DEF Shape, CallerState
<1>2. QED
  BY <1>1, Zenon DEF Shape

\* An answer moves a caller on, or nobody.
LEMMA AnswerShape ==
  ASSUME Shape, NEW tok, NEW pc, NEW next \in {"idle", "granted"}, Answer(tok, pc, next)
  PROVE  caller' \in [Client -> CallerState]
<1>1. CASE caller' = [caller EXCEPT ![Owner(tok)].pc = next]
  BY <1>1, CallerMoves, Zenon
<1>2. CASE caller' = caller
  BY <1>2 DEF Shape
<1>3. QED
  BY <1>1, <1>2 DEF Answer

\* A message of a caller goes to the end of its mailbox.
LEMMA SendShape ==
  ASSUME Shape, NEW c \in Client, NEW m \in Mail
  PROVE  [inbox EXCEPT ![c] = Append(@, m)] \in [Client -> Seq(Mail)]
<1>1. Append(inbox[c], m) \in Seq(Mail)
  BY DEF Shape
<1>2. QED
  BY <1>1 DEF Shape

\* The guardian takes the first message of a mailbox.
LEMMA ReceiveShape ==
  ASSUME Shape, NEW c \in Client, inbox[c] # << >>
  PROVE  /\ [inbox EXCEPT ![c] = Tail(@)] \in [Client -> Seq(Mail)]
         /\ Head(inbox[c]) \in Mail
BY DEF Shape

\* What a caller sends about its current request.
LEMMA MailShape ==
  ASSUME Shape, NEW c \in Client, NEW k \in Key \cup {None},
         NEW kind \in {"reserve", "submit", "cancel", "down"}
  PROVE  /\ caller[c].key \in Key \cup {None} /\ caller[c].n \in Nat
         /\ [kind |-> kind, tok |-> TokenOf(c), key |-> k, op |-> caller[c].op,
             gen |-> caller[c].gen] \in Mail
BY DEF Shape, CallerState, TokenOf, Mail

\* A completion answers its caller and lets the next commands out.
LEMMA CompleteShape ==
  ASSUME Shape, NEW m, Complete(m)
  PROVE  /\ pending' \in Seq(Order) /\ box' \in Seq(Order) /\ caller' \in [Client -> CallerState]
<1>1. caller' \in [Client -> CallerState]
  BY AnswerShape DEF Shape, Complete, Refuse
<1>2. CASE Dispatch(pending, active \ {m.tok}, Window)
  BY <1>1, <1>2, DispatchMoves DEF Shape
<1>3. CASE UNCHANGED <<delivery, box>>
  BY <1>1, <1>3 DEF Shape, delivery
<1>4. QED
  BY <1>2, <1>3 DEF Complete

\* At the start every variable has its type.
LEMMA ShapeInit == Init => Shape
<1> SUFFICES ASSUME Init
             PROVE  Shape
  OBVIOUS
<1>1. caller \in [Client -> CallerState]
  BY DEF Init, CallerState, Op
<1>2. inbox \in [Client -> Seq(Mail)]
  BY DEF Init
<1>3. engine \in EngineState
  BY DEF Init, EngineState
<1>4. /\ pending = << >> /\ box = << >> /\ batch = << >> /\ results = << >>
      /\ appended = << >> /\ out = << >> /\ log = << >>
      /\ current = None /\ active = {} /\ fenced = {} /\ gen = 0
  BY DEF Init
<1> QED BY <1>1, <1>2, <1>3, <1>4 DEF Init, Shape

\* Every step sends messages of the right shape.
LEMMA ShapeStep == Shape /\ [Next]_vars => Shape'
<1> SUFFICES ASSUME Shape, [Next]_vars PROVE Shape'
  OBVIOUS
<1> USE DEF generation, delivery, memory, engine_, history
<1>1. ASSUME NEW c \in Client, ClientStep(c)
      PROVE  Shape'
  <2>1. ASSUME NEW kind \in {"submit", "cancel", "down"}, Send(c, kind)
        PROVE  inbox' \in [Client -> Seq(Mail)]
    BY <2>1, MailShape, SendShape, Zenon DEF Send
  <2>2. ASSUME NEW op \in Op, Request(c, op) PROVE Shape'
    <3>1. [pc |-> "started", n |-> caller[c].n + 1, op |-> op, gen |-> gen, key |-> None]
            \in CallerState
      BY DEF Shape, CallerState
    <3>2. caller' \in [Client -> CallerState]
      BY <2>2, <3>1 DEF Shape, Request
    <3>3. QED
      BY <2>2, <3>2 DEF Shape, Request
  <2>3. CASE Claim(c)
    <3>1. CASE UNCHANGED inbox /\ caller' = [caller EXCEPT ![c].pc = "idle"]
      BY <2>3, <3>1, CallerMoves, Zenon DEF Shape, Claim
    <3>2. ASSUME NEW k \in Key,
                 caller' = [caller EXCEPT ![c].pc = "reserving", ![c].key = k],
                 inbox' = [inbox EXCEPT ![c] = Append(@, [kind |-> "reserve",
                             tok |-> TokenOf(c), key |-> k, op |-> caller[c].op,
                             gen |-> caller[c].gen])]
          PROVE  Shape'
      <4>1. inbox' \in [Client -> Seq(Mail)]
        BY <3>2, MailShape, SendShape, Zenon
      <4>2. caller' \in [Client -> CallerState]
        BY <3>2, Zenon DEF Shape, CallerState
      <4>3. QED
        BY <2>3, <4>1, <4>2 DEF Shape, Claim
    <3>3. QED
      BY <2>3, <3>1, <3>2, Zenon DEF Claim
  <2>4. CASE Submit(c)
    BY <2>1, <2>4, CallerMoves, Zenon DEF Shape, Submit
  <2>5. CASE Timeout(c)
    BY <2>1, <2>5, CallerMoves, Zenon DEF Shape, Timeout
  <2>6. CASE Die(c)
    BY <2>1, <2>6, CallerMoves, Zenon DEF Shape, Die
  <2>7. QED
    BY <1>1, <2>2, <2>3, <2>4, <2>5, <2>6 DEF ClientStep
<1>2. ASSUME NEW c \in Client, GuardianStep(c)
      PROVE  Shape'
  <2>1. ASSUME NEW expired \in BOOLEAN, ReserveMsg(c, expired) PROVE Shape'
    <3>1. caller' \in [Client -> CallerState]
      BY <2>1, AnswerShape DEF ReserveMsg, Refuse
    <3>2. inbox' \in [Client -> Seq(Mail)]
      BY <2>1, ReceiveShape DEF ReserveMsg
    <3>3. UNCHANGED <<generation, delivery, engine_, box, out, coordinator, log>>
      BY <2>1 DEF ReserveMsg
    <3>4. QED
      BY <3>1, <3>2, <3>3 DEF Shape
  <2>2. CASE SubmitMsg(c)
    <3> DEFINE m == Head(inbox[c])
               p == Append(pending, [tok |-> m.tok, key |-> m.key, op |-> m.op])
    <3>1. inbox' \in [Client -> Seq(Mail)] /\ m \in Mail
      BY <2>2, ReceiveShape DEF SubmitMsg
    <3>2. p \in Seq(Order)
      <4>1. [tok |-> m.tok, key |-> m.key, op |-> m.op] \in Order
        BY <3>1 DEF Mail, Order, AnyToken
      <4>2. QED
        BY <4>1 DEF Shape
    <3>3. CASE Dispatch(p, active, Window) /\ UNCHANGED caller
      <4>1. pending' \in Seq(Order) /\ box' \in Seq(Order)
        BY <3>2, <3>3, DispatchMoves, Zenon DEF Shape
      <4>2. QED
        BY <2>2, <3>1, <3>3, <4>1 DEF Shape, SubmitMsg
    <3>4. CASE Refuse(m.tok, "submitting") /\ UNCHANGED <<delivery, box>>
      <4>1. caller' \in [Client -> CallerState]
        BY <3>4, AnswerShape DEF Refuse
      <4>2. QED
        BY <2>2, <3>1, <3>4, <4>1 DEF Shape, SubmitMsg
    <3>5. QED
      BY <2>2, <3>3, <3>4 DEF SubmitMsg
  <2>3. CASE CancelMsg(c)
    BY <2>3 DEF Shape, CancelMsg
  <2>4. CASE DownMsg(c)
    BY <2>4 DEF Shape, DownMsg
  <2>5. QED
    BY <1>2, <2>1, <2>2, <2>3, <2>4 DEF GuardianStep
<1>3. ASSUME NEW expired, Reap(expired)
      PROVE  Shape'
  BY <1>3 DEF Shape, Reap
<1>4. CASE CompletedMsg
  BY <1>4, CompleteShape DEF Shape, CompletedMsg
<1>5. CASE YieldedMsg
  <2>1. CASE Dispatch(pending, active \ {Head(out).tok}, Window)
    <3>1. pending' \in Seq(Order) /\ box' \in Seq(Order)
      BY <2>1, DispatchMoves DEF Shape
    <3>2. QED
      BY <1>5, <3>1 DEF Shape, YieldedMsg
  <2>2. CASE UNCHANGED <<delivery, box>>
    BY <1>5, <2>2 DEF Shape, YieldedMsg
  <2>3. QED
    BY <1>5, <2>1, <2>2 DEF YieldedMsg
<1>6. CASE DrainedMsg
  BY <1>6 DEF Shape, DrainedMsg
<1>7. ASSUME NEW x \in coordinator, CoordinatorDone(x)
      PROVE  Shape'
  BY <1>7, CompleteShape DEF Shape, CoordinatorDone
<1>8. CASE Revoke
  BY <1>8 DEF Shape, Revoke
<1>9. CASE Restart
  <2>1. Drain \in Order
    BY DEF Drain, Order, AnyToken
  <2>2. QED
    BY <1>9, <2>1 DEF Shape, Restart
<1>10. CASE ForcedRestart
  BY <1>10 DEF Shape, ForcedRestart
<1>11. CASE OperationStarting
  BY <1>11 DEF Shape, OperationStarting, ClearGeneration
<1>12. CASE EngineStarts
  <2>1. engine' \in EngineState
    <3>1. engine' = engine \/ engine' = [up |-> TRUE, gen |-> gen, draining |-> FALSE]
      BY <1>12 DEF EngineStarts
    <3>2. [up |-> TRUE, gen |-> gen, draining |-> FALSE] \in EngineState
      BY DEF Shape, EngineState
    <3>3. QED
      BY <3>1, <3>2, Zenon DEF Shape
  <2>2. QED
    BY <1>12, <2>1 DEF Shape, EngineStarts
<1>13. CASE EngineTakes
  <2>1. Head(box) \in Order /\ box' \in Seq(Order)
    BY <1>13 DEF Shape, EngineTakes
  <2>2. Message("yielded", Head(box), "ok") \in Reply
    BY <2>1 DEF Shape, EngineState, Message, Order, Reply
  <2>3. Head(box).op = "schedule" =>
          [cmd |-> Head(box), gen |-> engine.gen]
            \in [cmd : {cmd \in Order : cmd.op = "schedule"}, gen : Nat]
    BY <2>1 DEF Shape, EngineState
  <2>4. out' \in Seq(Reply) /\ batch' \in Seq(Order)
    <3>1. /\ out' = out \/ out' = Append(out, Message("yielded", Head(box), "ok"))
          /\ batch' = batch \/ batch' = Append(batch, Head(box))
      BY <1>13 DEF EngineTakes
    <3>2. /\ Append(out, Message("yielded", Head(box), "ok")) \in Seq(Reply)
          /\ Append(batch, Head(box)) \in Seq(Order)
      BY <2>1, <2>2 DEF Shape
    <3>3. QED
      BY <3>1, <3>2, Zenon DEF Shape
  <2>5. coordinator' \subseteq [cmd : {cmd \in Order : cmd.op = "schedule"}, gen : Nat]
    BY <1>13, <2>3, Zenon DEF Shape, EngineTakes
  <2>6. QED
    BY <1>13, <2>1, <2>4, <2>5 DEF Shape, EngineTakes
<1>14. CASE FlushBegin
  BY <1>14 DEF Shape, FlushBegin
<1>15. CASE FlushCommand
  <2>1. batch[Len(results) + 1].tok \in AnyToken
    <3>1. Len(results) + 1 \in 1..Len(batch)
      BY <1>15 DEF Shape, FlushCommand
    <3>2. batch[Len(results) + 1] \in Order
      BY <3>1 DEF Shape
    <3>3. QED
      BY <3>2 DEF Order
  <2>2. results' \in Seq({"ok", "capacity"}) /\ appended' \in Seq(AnyToken)
    <3>1. /\ results' = Append(results, "ok") \/ results' = Append(results, "capacity")
          /\ \/ appended' = appended
             \/ appended' = Append(appended, batch[Len(results) + 1].tok)
      BY <1>15 DEF FlushCommand
    <3>2. /\ \A r \in {"ok", "capacity"} : Append(results, r) \in Seq({"ok", "capacity"})
          /\ Append(appended, batch[Len(results) + 1].tok) \in Seq(AnyToken)
      BY <2>1 DEF Shape
    <3>3. QED
      BY <3>1, <3>2, Zenon DEF Shape
  <2>3. QED
    BY <1>15, <2>2 DEF Shape, FlushCommand
<1>16. CASE FlushFinish
  <2>1. \A i \in 1..Len(batch) : Message("completed", batch[i], results[i]) \in Reply
    <3>1. \A i \in 1..Len(batch) : batch[i] \in Order /\ results[i] \in {"ok", "capacity"}
      BY <1>16 DEF Shape, FlushFinish
    <3>2. engine.gen \in Nat
      BY DEF Shape, EngineState
    <3>3. QED
      BY <3>1, <3>2 DEF Message, Order, Reply
  <2>2. [i \in 1..Len(batch) |-> Message("completed", batch[i], results[i])] \in Seq(Reply)
    BY <2>1 DEF Shape
  <2>3. out' \in Seq(Reply) /\ log' \in Seq(AnyToken)
    BY <1>16, <2>2 DEF Shape, FlushFinish, Synced
  <2>4. QED
    BY <1>16, <2>3 DEF Shape, FlushFinish
<1>17. CASE EngineExecutes
  <2>1. \A kind \in {"completed", "drained"}, r \in {"ok", "draining"} :
          Message(kind, current, r) \in Reply
    BY <1>17 DEF Shape, EngineState, EngineExecutes, Message, Order, Reply
  <2>2. out' \in Seq(Reply)
    <3>1. \/ out' = out
          \/ \E kind \in {"completed", "drained"}, r \in {"ok", "draining"} :
               out' = Append(out, Message(kind, current, r))
      BY <1>17 DEF EngineExecutes
    <3>2. \A kind \in {"completed", "drained"}, r \in {"ok", "draining"} :
            Append(out, Message(kind, current, r)) \in Seq(Reply)
      BY <2>1 DEF Shape
    <3>3. QED
      BY <3>1, <3>2, Zenon DEF Shape
  <2>3. engine' \in EngineState
    BY <1>17, Zenon DEF Shape, EngineState, EngineExecutes
  <2>4. QED
    BY <1>17, <2>2, <2>3 DEF Shape, EngineExecutes
<1>18. CASE EngineDies
  <2>1. log' \in Seq(AnyToken)
    <3>1. PICK k \in 0..Len(appended) : log' = log \o SubSeq(appended, 1, k)
      BY <1>18, Zenon DEF EngineDies
    <3>2. SubSeq(appended, 1, k) \in Seq(AnyToken)
      BY DEF Shape
    <3>3. QED
      BY <3>1, <3>2 DEF Shape
  <2>2. engine' \in EngineState
    BY <1>18, Zenon DEF Shape, EngineState, EngineDies
  <2>3. QED
    BY <1>18, <2>1, <2>2 DEF Shape, EngineDies
<1>19. CASE UNCHANGED vars
  BY <1>19 DEF Shape, vars
<1>20. QED
  BY <1>1, <1>2, <1>3, <1>4, <1>5, <1>6, <1>7, <1>8, <1>9, <1>10, <1>11, <1>12, <1>13,
     <1>14, <1>15, <1>16, <1>17, <1>18, <1>19 DEF Next

---------------------------------------------------------------------------
(* What a caller knows *)

\* What moving on does to a caller.
LEMMA PcMoves ==
  ASSUME Shape, NEW c \in Client, NEW pc, caller' = [caller EXCEPT ![c].pc = pc]
  PROVE  /\ caller'[c].pc = pc
         /\ \A d \in Client \ {c} : caller'[d] = caller[d]
         /\ \A d \in Client : caller'[d].n = caller[d].n /\ caller'[d].op = caller[d].op
BY Zenon DEF Shape, CallerState

\* A caller that is answered, or none, moves on within its request or ends it.
LEMMA AnswerCalm ==
  ASSUME Shape, NEW c \in Client, NEW tok, NEW pc \in {"reserving", "submitting"},
         NEW next \in {"idle", "granted"}, Owner(tok) = c, Answer(tok, pc, next),
         next = "granted" => pc = "reserving"
  PROVE  /\ \A d \in Client : caller'[d].n = caller[d].n /\ caller'[d].op = caller[d].op
         /\ \A d \in Client : Early(d)' => Early(d)
         /\ Waits(tok, pc) => tok = TokenOf(c) /\ caller[c].pc = pc /\ caller'[c].pc = next
<1>1. CASE Waits(tok, pc)
  <2>1. /\ caller' = [caller EXCEPT ![c].pc = next]
        /\ caller[c].pc = pc /\ tok = TokenOf(c)
    BY <1>1 DEF Answer, Waits
  <2>2. /\ caller'[c].pc = next
        /\ \A d \in Client \ {c} : caller'[d] = caller[d]
        /\ \A d \in Client : caller'[d].n = caller[d].n /\ caller'[d].op = caller[d].op
    BY <2>1, PcMoves, Zenon
  <2>3. QED
    BY <2>1, <2>2 DEF Early
<1>2. CASE ~Waits(tok, pc)
  BY <1>2 DEF Answer, Early
<1>3. QED
  BY <1>1, <1>2, Zenon

---------------------------------------------------------------------------
(* The drain frontier.  A restart fences the commands that were submitted   *)
(* before it and sends the drain signal behind them.                        *)

\* The submissions in a mailbox, of any operation.
Letters == {m \in Mail : m.kind = "submit"}
Asked(c) == Toks(inbox[c], Letters)
TokensOf(s) == Toks(s, Order)

\* The guardian has taken the submission of the token and will not see another.
Received(t) == t \in Client \X Nat /\ ~Unsent(t[1], t) /\ t \notin Asked(t[1])

\* A token is submitted once, and what the guardian delivers or has fenced was
\* submitted before.
Posted ==
  /\ \A c \in Client :
       /\ Once(inbox[c], Letters)
       /\ \A t \in Asked(c) : t \in Client \X Nat /\ t[1] = c /\ ~Unsent(c, t)
  /\ \A t \in active \cup TokensOf(pending) \cup fenced : Received(t)

\* Where the drain signal of this generation is: in the Engine's mailbox, in its
\* hands, or answered.
Signals == {i \in DOMAIN box : box[i].op = "drain"}
Signalling == current # None /\ current.op = "drain"
Signalled == \E i \in DOMAIN out : out[i].kind = "drained" /\ out[i].gen = gen
Calm == operation = "none" /\ state \in {"ready", "draining"}

\* There is at most one, and none before a restart asks for it.
OneSignal ==
  /\ \A i, j \in Signals : i = j /\ box[i] = Drain
  /\ Signalling \/ Signalled \/ Calm => Signals = {}
  /\ Signalled \/ Calm => ~Signalling
  /\ Calm \/ operation = "starting" => ~Signalled

\* A dead Engine has lost its messages, and speaks of no later generation.
Dead ==
  /\ operation = "starting" => ~engine.up
  /\ ~engine.up => box = << >> /\ current = None /\ batch = << >>
  /\ engine.gen <= gen /\ \A i \in DOMAIN out : out[i].gen <= gen

Fencing == operation \in {"draining", "closing"}

\* The guardian no longer holds a fenced command, and the Engine finds those it
\* has yet to execute before the signal.
Fence ==
  /\ \A i \in DOMAIN pending :
       pending[i].op # "drain" /\ (Fencing => pending[i].tok \notin fenced)
  /\ operation = "draining" =>
       /\ \A i \in DOMAIN box \ Signals : box[i].tok \in fenced => \E j \in Signals : i < j
       /\ \A i \in DOMAIN batch : batch[i].tok \in fenced => Signalling \/ Signals # {}
  /\ operation = "closing" =>
       /\ \A i \in DOMAIN box : box[i].tok \notin fenced
       /\ \A i \in DOMAIN batch : batch[i].tok \notin fenced

Signal == OneSignal /\ Dead /\ Fence
FrontierInv == Shape /\ Posted /\ Signal

\* A token once received stays so while no caller goes back to an earlier request.
LEMMA ReceivedStays ==
  ASSUME \A d \in Client : caller'[d].n = caller[d].n /\ (Early(d)' => Early(d)),
         \A d \in Client : Asked(d)' \subseteq Asked(d),
         NEW t, Received(t)
  PROVE  Received(t)'
<1>1. t \in Client \X Nat /\ t[1] \in Client
  BY DEF Received
<1> QED BY <1>1 DEF Received, Unsent

\* The same of all that was submitted.
LEMMA PostedStays ==
  ASSUME Posted,
         \A d \in Client : caller'[d].n = caller[d].n /\ (Early(d)' => Early(d)),
         \A d \in Client : Asked(d)' \subseteq Asked(d) /\ Once(inbox'[d], Letters),
         NEW X, active' \cup TokensOf(pending)' \cup fenced'
                  \subseteq active \cup TokensOf(pending) \cup fenced \cup X,
         \A t \in X : Received(t)'
  PROVE  Posted'
<1>1. \A t \in active' \cup TokensOf(pending)' \cup fenced' : Received(t)'
  BY ReceivedStays, Zenon DEF Posted
<1>2. \A c \in Client : \A t \in Asked(c)' : t \in Client \X Nat /\ t[1] = c /\ ~Unsent(c, t)'
  BY DEF Posted, Unsent
<1> QED BY <1>1, <1>2 DEF Posted

\* The same when nothing new is delivered or fenced.
LEMMA PostedSame ==
  ASSUME Posted,
         \A d \in Client : caller'[d].n = caller[d].n /\ (Early(d)' => Early(d)),
         \A d \in Client : Asked(d)' \subseteq Asked(d) /\ Once(inbox'[d], Letters),
         active' \cup TokensOf(pending)' \cup fenced'
           \subseteq active \cup TokensOf(pending) \cup fenced
  PROVE  Posted'
<1>1. \A t \in active' \cup TokensOf(pending)' \cup fenced' : Received(t)'
  BY ReceivedStays, Zenon DEF Posted
<1>2. \A c \in Client : \A t \in Asked(c)' : t \in Client \X Nat /\ t[1] = c /\ ~Unsent(c, t)'
  BY DEF Posted, Unsent
<1> QED BY <1>1, <1>2 DEF Posted

\* What sending does to the submissions under way.
LEMMA SendAsked ==
  ASSUME Shape, NEW c \in Client, NEW m \in Mail,
         inbox' = [inbox EXCEPT ![c] = Append(@, m)]
  PROVE  /\ \A d \in Client \ {c} : Asked(d)' = Asked(d) /\ inbox'[d] = inbox[d]
         /\ m \notin Letters => Asked(c)' = Asked(c)
         /\ m \in Letters => Asked(c)' = Asked(c) \cup {m.tok}
         /\ Once(inbox[c], Letters) /\ (m \in Letters => m.tok \notin Asked(c))
              => Once(inbox'[c], Letters)
<1>1. inbox'[c] = Append(inbox[c], m) /\ \A d \in Client \ {c} : inbox'[d] = inbox[d]
  BY DEF Shape
<1>2. inbox[c] \in Seq(Mail)
  BY DEF Shape
<1>3. /\ m \in Letters => Toks(Append(inbox[c], m), Letters) = Asked(c) \cup {m.tok}
      /\ m \notin Letters => Toks(Append(inbox[c], m), Letters) = Asked(c)
      /\ Once(inbox[c], Letters) /\ (m \in Letters => m.tok \notin Asked(c))
           => Once(Append(inbox[c], m), Letters)
  BY <1>2, AppendToks, Zenon DEF Asked
<1> QED BY <1>1, <1>3 DEF Asked

\* What receiving does to them.
LEMMA ReceiveAsked ==
  ASSUME Shape, NEW c \in Client, inbox[c] # << >>,
         inbox' = [inbox EXCEPT ![c] = Tail(@)],
         \A d \in Client : Once(inbox[d], Letters)
  PROVE  /\ \A d \in Client : Asked(d)' \subseteq Asked(d) /\ Once(inbox'[d], Letters)
         /\ Head(inbox[c]) \in Letters =>
              Head(inbox[c]).tok \in Asked(c) /\ Head(inbox[c]).tok \notin Asked(c)'
<1>1. inbox'[c] = Tail(inbox[c]) /\ \A d \in Client \ {c} : inbox'[d] = inbox[d]
  BY DEF Shape
<1>2. inbox[c] \in Seq(Mail)
  BY DEF Shape
<1>3. /\ Toks(Tail(inbox[c]), Letters) \subseteq Asked(c) /\ Once(Tail(inbox[c]), Letters)
      /\ Head(inbox[c]) \in Letters =>
           /\ Head(inbox[c]).tok \in Asked(c)
           /\ Head(inbox[c]).tok \notin Toks(Tail(inbox[c]), Letters)
  BY <1>2, TailToks, Zenon DEF Asked
<1> QED BY <1>1, <1>3 DEF Asked

\* The steps of a caller.  Submitting is what makes its token one that was sent.
LEMMA CallersPost ==
  ASSUME Shape, Posted, NEW c \in Client, ClientStep(c)
  PROVE  Posted'
<1> USE DEF generation, delivery
<1>0. /\ active' = active /\ pending' = pending /\ fenced' = fenced
      /\ active' \cup TokensOf(pending)' \cup fenced' = active \cup TokensOf(pending) \cup fenced
  <2>1. active' = active /\ pending' = pending /\ fenced' = fenced
    BY DEF ClientStep, Request, Claim, Submit, Timeout, Die
  <2> QED BY <2>1 DEF TokensOf
<1>1. ASSUME NEW m \in Mail, m \notin Letters,
             inbox' = [inbox EXCEPT ![c] = Append(@, m)],
             \A d \in Client : caller'[d].n = caller[d].n /\ (Early(d)' => Early(d))
      PROVE  Posted'
  <2>1. \A d \in Client : Asked(d)' \subseteq Asked(d) /\ Once(inbox'[d], Letters)
    BY <1>1, SendAsked, Zenon DEF Posted
  <2> QED BY <1>0, <1>1, <2>1, PostedSame
<1>2. ASSUME NEW op \in Op, Request(c, op) PROVE Posted'
  <2>1. /\ \A d \in Client \ {c} : caller'[d] = caller[d]
        /\ caller'[c].n = caller[c].n + 1 /\ caller[c].n \in Nat
    BY <1>2 DEF Request, Shape, CallerState
  <2>2. inbox' = inbox
    BY <1>2 DEF Request
  <2>3. ASSUME NEW t \in Client \X Nat, ~Unsent(t[1], t) PROVE ~Unsent(t[1], t)'
    <3>1. t[1] \in Client /\ t[2] \in Nat
      OBVIOUS
    <3>2. CASE t[1] # c
      BY <2>1, <2>3, <3>1, <3>2 DEF Unsent, Early
    <3>3. CASE t[1] = c
      <4>1. t[2] <= caller[c].n
        BY <2>1, <2>3, <3>1, <3>3 DEF Unsent
      <4> QED BY <2>1, <3>1, <3>3, <4>1 DEF Unsent
    <3> QED BY <3>2, <3>3
  <2>4. \A d \in Client : Asked(d)' = Asked(d) /\ inbox'[d] = inbox[d]
    BY <2>2 DEF Asked
  <2>5. \A t \in active \cup TokensOf(pending) \cup fenced : Received(t)'
    BY <2>3, <2>4 DEF Posted, Received
  <2>6. \A d \in Client : \A t \in Asked(d)' : t \in Client \X Nat /\ t[1] = d /\ ~Unsent(d, t)'
    BY <2>3, <2>4 DEF Posted
  <2> QED BY <1>0, <2>4, <2>5, <2>6 DEF Posted
<1>3. CASE Claim(c)
  <2>1. CASE UNCHANGED inbox /\ caller' = [caller EXCEPT ![c].pc = "idle"]
    <3>1. \A d \in Client : caller'[d].n = caller[d].n /\ (Early(d)' => Early(d))
      BY <2>1, PcMoves DEF Early
    <3>2. \A d \in Client : Asked(d)' \subseteq Asked(d) /\ Once(inbox'[d], Letters)
      BY <2>1 DEF Posted, Asked
    <3> QED BY <1>0, <3>1, <3>2, PostedSame
  <2>2. ASSUME NEW k \in Key,
               caller' = [caller EXCEPT ![c].pc = "reserving", ![c].key = k],
               inbox' = [inbox EXCEPT ![c] = Append(@, [kind |-> "reserve",
                           tok |-> TokenOf(c), key |-> k, op |-> caller[c].op,
                           gen |-> caller[c].gen])]
        PROVE  Posted'
    <3> DEFINE m == [kind |-> "reserve", tok |-> TokenOf(c), key |-> k, op |-> caller[c].op,
                     gen |-> caller[c].gen]
    <3>1. m \in Mail /\ m \notin Letters
      BY MailShape, Zenon DEF Letters
    <3>2. \A d \in Client : caller'[d].n = caller[d].n /\ (Early(d)' => Early(d))
      <4>1. \A d \in Client \ {c} : caller'[d] = caller[d]
        BY <2>2 DEF Shape
      <4>2. caller'[c].n = caller[c].n
        BY <2>2, Zenon DEF Shape, CallerState
      <4>3. Early(c)
        BY <1>3 DEF Claim, Early
      <4> QED BY <4>1, <4>2, <4>3 DEF Early
    <3>3. inbox' = [inbox EXCEPT ![c] = Append(@, m)]
      BY <2>2
    <3> HIDE DEF m
    <3> QED BY <1>1, <3>1, <3>2, <3>3, Zenon
  <2> QED BY <1>3, <2>1, <2>2, Zenon DEF Claim
<1>4. CASE Submit(c)
  <2> DEFINE m == [kind |-> "submit", tok |-> TokenOf(c), key |-> caller[c].key,
                   op |-> caller[c].op, gen |-> caller[c].gen]
  <2>1. m \in Mail /\ m \in Letters /\ m.tok = TokenOf(c) /\ TokenOf(c) \in Client \X Nat
    BY MailShape, TokenShape, Zenon DEF Letters
  <2>2. inbox' = [inbox EXCEPT ![c] = Append(@, m)]
    BY <1>4 DEF Submit, Send
  <2> HIDE DEF m
  <2>3. /\ caller[c].pc = "granted" /\ caller'[c].pc = "submitting"
        /\ \A d \in Client \ {c} : caller'[d] = caller[d]
        /\ \A d \in Client : caller'[d].n = caller[d].n
    BY <1>4, PcMoves, Zenon DEF Submit
  <2>4. \A d \in Client : caller'[d].n = caller[d].n /\ (Early(d)' => Early(d))
    BY <2>3 DEF Early
  <2>5. Unsent(c, TokenOf(c)) /\ TokenOf(c)[1] = c
    BY <2>1, <2>3 DEF Unsent, Early, TokenOf
  <2>6. TokenOf(c) \notin Asked(c)
    BY <2>5 DEF Posted
  <2>7. /\ \A d \in Client \ {c} : Asked(d)' = Asked(d) /\ inbox'[d] = inbox[d]
        /\ Asked(c)' = Asked(c) \cup {TokenOf(c)}
        /\ Once(inbox'[c], Letters)
    <3>1. Once(inbox[c], Letters) /\ m.tok \notin Asked(c)
      BY <2>1, <2>6 DEF Posted
    <3>2. /\ \A d \in Client \ {c} : Asked(d)' = Asked(d) /\ inbox'[d] = inbox[d]
          /\ Asked(c)' = Asked(c) \cup {m.tok}
          /\ Once(inbox'[c], Letters)
      BY <2>1, <2>2, <3>1, SendAsked, Zenon
    <3> QED BY <2>1, <3>2
  <2>8. ASSUME NEW t, Received(t) PROVE Received(t)'
    <3>1. t # TokenOf(c) /\ t[1] \in Client
      BY <2>5, <2>8 DEF Received
    <3>2. ~Unsent(t[1], t)'
      BY <2>4, <2>8, <3>1 DEF Received, Unsent
    <3> QED BY <2>7, <2>8, <3>1, <3>2 DEF Received
  <2>9. ASSUME NEW t, t = TokenOf(c) PROVE ~Unsent(c, t)'
    <3>1. ~Early(c)' /\ caller'[c].n = caller[c].n /\ caller[c].n \in Nat
      BY <2>3 DEF Early, Shape, CallerState
    <3>2. TokenOf(c)[2] = caller[c].n
      BY DEF TokenOf
    <3> QED BY <2>9, <3>1, <3>2 DEF Unsent
  <2>10. \A d \in Client : \A t \in Asked(d)' : t \in Client \X Nat /\ t[1] = d /\ ~Unsent(d, t)'
    <3>1. ASSUME NEW d \in Client, NEW t \in Asked(d)
          PROVE  t \in Client \X Nat /\ t[1] = d /\ ~Unsent(d, t)'
      BY <2>4 DEF Posted, Unsent
    <3>2. ASSUME NEW t, t = TokenOf(c)
          PROVE  t \in Client \X Nat /\ t[1] = c /\ ~Unsent(c, t)'
      BY <2>1, <2>5, <2>9, <3>2
    <3> SUFFICES ASSUME NEW d \in Client, NEW t \in Asked(d)'
                 PROVE  t \in Client \X Nat /\ t[1] = d /\ ~Unsent(d, t)'
      OBVIOUS
    <3>3. t \in Asked(d) \/ (d = c /\ t = TokenOf(c))
      BY <2>7
    <3>4. CASE t \in Asked(d)
      BY <3>1, <3>4
    <3>5. CASE d = c /\ t = TokenOf(c)
      BY <3>2, <3>5
    <3> QED BY <3>3, <3>4, <3>5
  <2> QED BY <1>0, <2>7, <2>8, <2>10 DEF Posted
<1>5. CASE Timeout(c) \/ Die(c)
  <2>1. PICK kind \in {"cancel", "down"}, pc \in {"idle", "dead"} :
          Send(c, kind) /\ caller' = [caller EXCEPT ![c].pc = pc]
    BY <1>5, Zenon DEF Timeout, Die
  <2> DEFINE m == [kind |-> kind, tok |-> TokenOf(c), key |-> caller[c].key,
                   op |-> caller[c].op, gen |-> caller[c].gen]
  <2>2. m \in Mail /\ m \notin Letters
    BY MailShape, Zenon DEF Letters
  <2>3. inbox' = [inbox EXCEPT ![c] = Append(@, m)]
    BY <2>1 DEF Send
  <2> HIDE DEF m
  <2>4. \A d \in Client : caller'[d].n = caller[d].n /\ (Early(d)' => Early(d))
    BY <2>1, PcMoves DEF Early
  <2> QED BY <1>1, <2>2, <2>3, <2>4, Zenon
<1> QED BY <1>2, <1>3, <1>4, <1>5 DEF ClientStep

\* dispatch_commands: what it does to the queues, the window and the Engine's
\* mailbox.
LEMMA DispatchQueues ==
  ASSUME NEW p \in Seq(Order), NEW a, box \in Seq(Order), Dispatch(p, a, Window)
  PROVE  /\ \A i \in DOMAIN pending' : \E j \in DOMAIN p : pending'[i] = p[j]
         /\ active' \cup TokensOf(pending)' \subseteq a \cup TokensOf(p)
         /\ \E f \in Seq(Order) :
              /\ box' = box \o f /\ (~engine.up => f = << >>)
              /\ \A i \in DOMAIN f : \E j \in DOMAIN p : f[i] = p[j]
<1>1. PICK k \in 0..Len(p) :
        /\ pending' = SubSeq(p, k + 1, Len(p))
        /\ active' = a \cup {p[i].tok : i \in 1..k}
        /\ box' = IF engine.up THEN box \o SubSeq(p, 1, k) ELSE box
  BY Zenon DEF Dispatch
<1> DEFINE front == SubSeq(p, 1, k)
           rest == SubSeq(p, k + 1, Len(p))
<1>2. /\ Len(p) \in Nat /\ DOMAIN p = 1..Len(p) /\ k \in Nat /\ k <= Len(p)
      /\ front \in Seq(Order) /\ DOMAIN front = 1..k
      /\ rest \in Seq(Order) /\ DOMAIN rest = 1..(Len(p) - k)
      /\ \A i \in 1..k : front[i] = p[i]
      /\ \A i \in 1..(Len(p) - k) : rest[i] = p[k + i]
  OBVIOUS
<1>3. pending' = rest /\ (box' = IF engine.up THEN box \o front ELSE box)
  BY <1>1
<1> HIDE DEF front, rest
<1>4. \A i \in 1..(Len(p) - k) : k + i \in DOMAIN p
  BY <1>2
<1>5. \A i \in DOMAIN pending' : \E j \in DOMAIN p : pending'[i] = p[j]
  BY <1>2, <1>3, <1>4, Zenon
<1>6. \A i \in 1..k : i \in DOMAIN p
  BY <1>2
<1>7. TokensOf(pending)' \subseteq TokensOf(p)
  BY <1>5 DEF TokensOf, Toks
<1>8. \A j \in DOMAIN p : p[j] \in Order /\ p[j].tok \in TokensOf(p)
  BY <1>2 DEF TokensOf, Toks
<1>9. active' \subseteq a \cup TokensOf(p)
  BY <1>1, <1>6, <1>8
<1>10. CASE engine.up
  <2>1. \A i \in DOMAIN front : \E j \in DOMAIN p : front[i] = p[j]
    BY <1>2, <1>6
  <2> QED BY <1>2, <1>3, <1>5, <1>7, <1>9, <1>10, <2>1, Zenon
<1>11. CASE ~engine.up
  <2>1. << >> \in Seq(Order) /\ box' = box \o << >> /\ DOMAIN << >> = {}
    BY <1>3, <1>11
  <2> QED BY <1>5, <1>7, <1>9, <2>1, Zenon
<1> QED BY <1>10, <1>11, Zenon

\* The messages of the Engine that are left, and commands that are neither fenced
\* nor a signal, change nothing about the signal and what is before it.
LEMMA SignalStays ==
  ASSUME Shape, Signal, UNCHANGED <<engine_, generation>>,
         NEW f \in Seq(Order), box' = box \o f, ~engine.up => f = << >>,
         \A i \in DOMAIN f : f[i].op # "drain" /\ (Fencing => f[i].tok \notin fenced),
         \A i \in DOMAIN pending' :
           pending'[i].op # "drain" /\ (Fencing => pending'[i].tok \notin fenced),
         \A i \in DOMAIN out' : \E j \in DOMAIN out : out'[i] = out[j]
  PROVE  Signal'
<1>0. /\ engine' = engine /\ current' = current /\ batch' = batch /\ gen' = gen
      /\ state' = state /\ operation' = operation /\ fenced' = fenced
  BY DEF engine_, generation
<1>1. /\ \A i \in DOMAIN box : i \in DOMAIN box' /\ box'[i] = box[i]
      /\ \A i \in DOMAIN box' :
           \/ i \in DOMAIN box /\ box'[i] = box[i]
           \/ i - Len(box) \in DOMAIN f /\ box'[i] = f[i - Len(box)]
  <2>1. box \in Seq(Order)
    BY DEF Shape
  <2>2. /\ \A i \in DOMAIN box : i \in DOMAIN (box \o f) /\ (box \o f)[i] = box[i]
        /\ \A i \in DOMAIN (box \o f) :
             \/ i \in DOMAIN box /\ (box \o f)[i] = box[i]
             \/ i - Len(box) \in DOMAIN f /\ (box \o f)[i] = f[i - Len(box)]
    BY <2>1, ConcatAt
  <2> QED BY <2>2, Zenon
<1>2. Signals' = Signals /\ \A i \in Signals : box'[i] = box[i]
  BY <1>1 DEF Signals
<1>3. Signalled' => Signalled
  BY <1>0 DEF Signalled
<1>4. (Signalling' <=> Signalling) /\ (Calm' <=> Calm) /\ (Fencing' <=> Fencing)
  BY <1>0 DEF Signalling, Calm, Fencing
<1>5. OneSignal'
  BY <1>0, <1>2, <1>3, <1>4, Zenon DEF OneSignal, Signal
<1>6. Dead'
  <2>1. ~engine.up => box' = << >>
    BY DEF Signal, Dead
  <2>2. \A i \in DOMAIN out' : out'[i].gen <= gen
    BY DEF Signal, Dead
  <2> QED BY <1>0, <2>1, <2>2 DEF Signal, Dead
<1>7. Fence'
  <2>1. \A i \in DOMAIN pending' :
          pending'[i].op # "drain" /\ (Fencing' => pending'[i].tok \notin fenced')
    BY <1>0, <1>4
  <2>2. ASSUME operation' = "draining"
        PROVE  /\ \A i \in DOMAIN box' \ Signals' : box'[i].tok \in fenced' => \E j \in Signals' : i < j
               /\ \A i \in DOMAIN batch' : batch'[i].tok \in fenced' => Signalling' \/ Signals' # {}
    <3>1. Fencing
      BY <1>0, <2>2 DEF Fencing
    <3>2. ASSUME NEW i \in DOMAIN box', box'[i].tok \in fenced PROVE i \in DOMAIN box /\ box'[i] = box[i]
      BY <1>1, <3>1, <3>2
    <3> QED BY <1>0, <1>2, <1>4, <2>2, <3>2 DEF Signal, Fence
  <2>3. ASSUME operation' = "closing"
        PROVE  /\ \A i \in DOMAIN box' : box'[i].tok \notin fenced'
               /\ \A i \in DOMAIN batch' : batch'[i].tok \notin fenced'
    <3>1. Fencing
      BY <1>0, <2>3 DEF Fencing
    <3> QED BY <1>0, <1>1, <2>3, <3>1 DEF Signal, Fence
  <2> QED BY <2>1, <2>2, <2>3 DEF Fence
<1> QED BY <1>5, <1>6, <1>7 DEF Signal

\* The same when nothing is sent to the Engine.
LEMMA SignalSame ==
  ASSUME Shape, Signal, UNCHANGED <<engine_, generation, delivery, box>>,
         \A i \in DOMAIN out' : \E j \in DOMAIN out : out'[i] = out[j]
  PROVE  Signal'
<1>1. << >> \in Seq(Order) /\ box' = box \o << >> /\ DOMAIN << >> = {}
  BY DEF Shape
<1>2. \A i \in DOMAIN pending' :
        pending'[i].op # "drain" /\ (Fencing => pending'[i].tok \notin fenced)
  BY DEF Signal, Fence, delivery
<1> QED BY <1>1, <1>2, SignalStays, Zenon

\* The same when the guardian sends what it holds.
LEMMA SignalDispatch ==
  ASSUME Shape, Signal, UNCHANGED <<engine_, generation>>, NEW a,
         Dispatch(pending, a, Window),
         \A i \in DOMAIN out' : \E j \in DOMAIN out : out'[i] = out[j]
  PROVE  Signal'
<1>1. \A i \in DOMAIN pending :
        pending[i].op # "drain" /\ (Fencing => pending[i].tok \notin fenced)
  BY DEF Signal, Fence
<1>2. /\ \A i \in DOMAIN pending' : \E j \in DOMAIN pending : pending'[i] = pending[j]
      /\ \E f \in Seq(Order) :
           /\ box' = box \o f /\ (~engine.up => f = << >>)
           /\ \A i \in DOMAIN f : \E j \in DOMAIN pending : f[i] = pending[j]
  BY DispatchQueues, Zenon DEF Shape
<1>3. PICK f \in Seq(Order) :
        /\ box' = box \o f /\ (~engine.up => f = << >>)
        /\ \A i \in DOMAIN f : \E j \in DOMAIN pending : f[i] = pending[j]
  BY <1>2
<1>4. \A i \in DOMAIN f : f[i].op # "drain" /\ (Fencing => f[i].tok \notin fenced)
  BY <1>1, <1>3
<1>5. \A i \in DOMAIN pending' :
        pending'[i].op # "drain" /\ (Fencing => pending'[i].tok \notin fenced)
  BY <1>1, <1>2
<1> QED BY <1>3, <1>4, <1>5, SignalStays

---------------------------------------------------------------------------
(* The guardian and the frontier *)

\* The owner of a token is a caller, as far as an answer to it is concerned.
LEMMA AnswerQuiet ==
  ASSUME Shape, NEW tok, NEW pc \in {"reserving", "submitting"}, NEW next \in {"idle", "granted"},
         Answer(tok, pc, next), next = "granted" => pc = "reserving"
  PROVE  \A d \in Client : caller'[d].n = caller[d].n /\ (Early(d)' => Early(d))
<1>1. CASE Owner(tok) \in Client
  BY <1>1, AnswerCalm, Zenon
<1>2. CASE Owner(tok) \notin Client
  <2>1. \A d \in Client : caller'[d] = caller[d]
    BY <1>2 DEF Answer, Shape
  <2> QED BY <2>1 DEF Early
<1> QED BY <1>1, <1>2

\* A letter that is no submission, or one that is refused.
LEMMA LetterFrontier ==
  ASSUME FrontierInv, NEW c \in Client, inbox[c] # << >>,
         inbox' = [inbox EXCEPT ![c] = Tail(@)],
         UNCHANGED <<generation, delivery, engine_, box, out>>,
         \A d \in Client : caller'[d].n = caller[d].n /\ (Early(d)' => Early(d))
  PROVE  Posted' /\ Signal'
<1>1. \A d \in Client : Asked(d)' \subseteq Asked(d) /\ Once(inbox'[d], Letters)
  BY ReceiveAsked, Zenon DEF FrontierInv, Posted
<1>2. active' \cup TokensOf(pending)' \cup fenced' = active \cup TokensOf(pending) \cup fenced
  BY DEF delivery, generation, TokensOf
<1>3. Posted'
  BY <1>1, <1>2, PostedSame DEF FrontierInv
<1>4. Signal'
  BY SignalSame DEF FrontierInv
<1> QED BY <1>3, <1>4

\* The submission of a command: its token is new to the guardian, so it is not a
\* fenced one.
LEMMA SubmitFrontier ==
  ASSUME FrontierInv, NEW c \in Client, SubmitMsg(c)
  PROVE  Posted' /\ Signal'
<1> DEFINE m == Head(inbox[c])
           cmd == [tok |-> m.tok, key |-> m.key, op |-> m.op]
<1>1. /\ inbox[c] # << >> /\ m.kind = "submit" /\ inbox' = [inbox EXCEPT ![c] = Tail(@)]
      /\ UNCHANGED <<generation, engine_, out>> /\ Shape
  BY DEF SubmitMsg, FrontierInv
<1>2. m \in Mail /\ m \in Letters
  BY <1>1, ReceiveShape DEF Letters
<1>3. CASE Refuse(m.tok, "submitting") /\ UNCHANGED <<delivery, box>>
  <2>1. \A d \in Client : caller'[d].n = caller[d].n /\ (Early(d)' => Early(d))
    BY <1>1, <1>3, AnswerQuiet DEF Refuse
  <2> QED BY <1>1, <1>3, <2>1, LetterFrontier, Zenon
<1>4. CASE Dispatch(Append(pending, cmd), active, Window) /\ caller' = caller
  <2>1. /\ \A d \in Client : Asked(d)' \subseteq Asked(d) /\ Once(inbox'[d], Letters)
        /\ m.tok \in Asked(c) /\ m.tok \notin Asked(c)'
    BY <1>1, <1>2, ReceiveAsked, Zenon DEF FrontierInv, Posted
  <2>2. m.tok \in Client \X Nat /\ m.tok[1] = c /\ ~Unsent(c, m.tok)
    BY <2>1 DEF FrontierInv, Posted
  <2>3. m.tok \notin fenced
    BY <2>1, <2>2 DEF FrontierInv, Posted, Received
  <2>4. \A d \in Client : caller'[d].n = caller[d].n /\ (Early(d)' => Early(d))
    BY <1>4 DEF Early
  <2>5. ASSUME NEW t, t = m.tok PROVE Received(t)'
    <3>1. ~Unsent(c, t)'
      BY <1>4, <2>2, <2>5 DEF Unsent, Early
    <3> QED BY <2>1, <2>2, <2>5, <3>1 DEF Received
  <2>6. cmd \in Order /\ cmd.op # "drain" /\ cmd.tok = m.tok
    BY <1>2 DEF Mail, Order, AnyToken, Op
  <2> HIDE DEF cmd, m
  <2> DEFINE p == Append(pending, cmd)
  <2>7. /\ pending \in Seq(Order) /\ p \in Seq(Order) /\ box \in Seq(Order)
        /\ \A j \in DOMAIN p : p[j] = cmd \/ \E i \in DOMAIN pending : p[j] = pending[i]
    <3>1. pending \in Seq(Order) /\ box \in Seq(Order)
      BY <1>1 DEF Shape
    <3>2. /\ p \in Seq(Order) /\ DOMAIN pending = 1..Len(pending) /\ DOMAIN p = 1..(Len(pending) + 1)
          /\ \A j \in 1..Len(pending) : p[j] = pending[j]
          /\ p[Len(pending) + 1] = cmd
      BY <2>6, <3>1
    <3> HIDE DEF p
    <3> QED BY <3>1, <3>2
  <2>8. TokensOf(p) \subseteq TokensOf(pending) \cup {m.tok}
    BY <2>6, <2>7 DEF TokensOf, Toks
  <2>9. Dispatch(p, active, Window)
    BY <1>4
  <2> HIDE DEF p
  <2>10. /\ \A i \in DOMAIN pending' : \E j \in DOMAIN p : pending'[i] = p[j]
         /\ active' \cup TokensOf(pending)' \subseteq active \cup TokensOf(p)
         /\ \E f \in Seq(Order) :
              /\ box' = box \o f /\ (~engine.up => f = << >>)
              /\ \A i \in DOMAIN f : \E j \in DOMAIN p : f[i] = p[j]
    BY <2>7, <2>9, DispatchQueues, Zenon
  <2>11. fenced' = fenced
    BY <1>1 DEF generation
  <2>12. Posted'
    <3> DEFINE X == {m.tok}
    <3>1. active' \cup TokensOf(pending)' \cup fenced'
            \subseteq active \cup TokensOf(pending) \cup fenced \cup X
      BY <2>8, <2>10, <2>11
    <3>2. \A t \in X : Received(t)'
      BY <2>5
    <3> HIDE DEF X
    <3> QED BY <2>1, <2>4, <3>1, <3>2, PostedStays DEF FrontierInv
  <2>13. \A j \in DOMAIN p : p[j].op # "drain" /\ (Fencing => p[j].tok \notin fenced)
    BY <2>3, <2>6, <2>7 DEF FrontierInv, Signal, Fence
  <2>14. PICK f \in Seq(Order) :
           /\ box' = box \o f /\ (~engine.up => f = << >>)
           /\ \A i \in DOMAIN f : \E j \in DOMAIN p : f[i] = p[j]
    BY <2>10
  <2>15. \A i \in DOMAIN f : f[i].op # "drain" /\ (Fencing => f[i].tok \notin fenced)
    BY <2>13, <2>14
  <2>16. \A i \in DOMAIN pending' :
           pending'[i].op # "drain" /\ (Fencing => pending'[i].tok \notin fenced)
    BY <2>10, <2>13
  <2>17. \A i \in DOMAIN out' : \E j \in DOMAIN out : out'[i] = out[j]
    BY <1>1
  <2>18. Signal'
    BY <1>1, <2>14, <2>15, <2>16, <2>17, SignalStays, Zenon DEF FrontierInv
  <2> QED BY <2>12, <2>18
<1> QED BY <1>3, <1>4 DEF SubmitMsg

\* What is left of the Engine's messages when one is taken.
LEMMA OutShrinks ==
  ASSUME Shape, out # << >>, out' = Tail(out)
  PROVE  /\ \A i \in DOMAIN out' : \E j \in DOMAIN out : out'[i] = out[j]
         /\ \E j \in DOMAIN out : Head(out) = out[j]
<1>1. out \in Seq(Reply)
  BY DEF Shape
<1>2. /\ \A i \in DOMAIN Tail(out) : i + 1 \in DOMAIN out /\ Tail(out)[i] = out[i + 1]
      /\ 1 \in DOMAIN out /\ Head(out) = out[1]
  BY <1>1
<1> QED BY <1>2

\* Answers and the coordinator's completions: the guardian delivers what it
\* holds, which is not fenced.
LEMMA DeliveryFrontier ==
  ASSUME FrontierInv, CompletedMsg \/ YieldedMsg \/ \E x \in coordinator : CoordinatorDone(x)
  PROVE  Posted' /\ Signal'
<1>0. Shape /\ Posted /\ Signal
  BY DEF FrontierInv
<1>1. /\ inbox' = inbox /\ UNCHANGED <<engine_, generation>>
      /\ \A i \in DOMAIN out' : \E j \in DOMAIN out : out'[i] = out[j]
  BY <1>0, OutShrinks, Zenon DEF CompletedMsg, YieldedMsg, CoordinatorDone
<1>2. \A d \in Client : Asked(d)' \subseteq Asked(d) /\ Once(inbox'[d], Letters)
  BY <1>0, <1>1 DEF Asked, Posted
<1>3. ASSUME NEW m, Complete(m)
      PROVE  /\ \A d \in Client : caller'[d].n = caller[d].n /\ (Early(d)' => Early(d))
             /\ UNCHANGED <<delivery, box>> \/ Dispatch(pending, active \ {m.tok}, Window)
  <2>1. CASE UNCHANGED <<caller, delivery, box>>
    BY <2>1 DEF Early
  <2>2. CASE Answer(m.tok, "submitting", "idle") /\ Dispatch(pending, active \ {m.tok}, Window)
    BY <1>0, <2>2, AnswerQuiet
  <2> QED BY <1>3, <2>1, <2>2 DEF Complete, Refuse
<1>4. \A d \in Client : caller'[d].n = caller[d].n /\ (Early(d)' => Early(d))
  <2>1. CASE YieldedMsg
    BY <2>1 DEF YieldedMsg, Early
  <2> QED BY <1>3, <2>1, Zenon DEF CompletedMsg, CoordinatorDone
<1>5. UNCHANGED <<delivery, box>> \/ \E t : Dispatch(pending, active \ {t}, Window)
  BY <1>3, Zenon DEF CompletedMsg, CoordinatorDone, YieldedMsg
<1>6. CASE UNCHANGED <<delivery, box>>
  <2>1. active' \cup TokensOf(pending)' \cup fenced' = active \cup TokensOf(pending) \cup fenced
    BY <1>1, <1>6 DEF delivery, generation, TokensOf
  <2> QED BY <1>0, <1>1, <1>2, <1>4, <1>6, <2>1, PostedSame, SignalSame
<1>7. ASSUME NEW t, Dispatch(pending, active \ {t}, Window) PROVE Posted' /\ Signal'
  <2>1. active' \cup TokensOf(pending)' \subseteq (active \ {t}) \cup TokensOf(pending)
    BY <1>0, <1>7, DispatchQueues, Zenon DEF Shape
  <2>2. active' \cup TokensOf(pending)' \cup fenced' \subseteq active \cup TokensOf(pending) \cup fenced
    BY <1>1, <2>1 DEF generation
  <2>3. Posted'
    BY <1>0, <1>2, <1>4, <2>2, PostedSame
  <2>4. Signal'
    BY <1>0, <1>1, <1>7, SignalDispatch
  <2> QED BY <2>3, <2>4
<1> QED BY <1>5, <1>6, <1>7, Zenon

---------------------------------------------------------------------------
(* The generation and the frontier *)

\* What was delivered and fenced is what it was, or less.
LEMMA PostedLess ==
  ASSUME Posted, UNCHANGED <<caller, inbox>>,
         active' \cup TokensOf(pending)' \cup fenced' \subseteq active \cup TokensOf(pending) \cup fenced
  PROVE  Posted'
<1>1. \A d \in Client : caller'[d].n = caller[d].n /\ (Early(d)' => Early(d))
  BY DEF Early
<1>2. \A d \in Client : Asked(d)' \subseteq Asked(d) /\ Once(inbox'[d], Letters)
  BY DEF Asked, Posted
<1> QED BY <1>1, <1>2, PostedSame

\* The loss of the generation: there is no operation to wait for.
LEMMA RevokeFrontier ==
  ASSUME FrontierInv, Revoke
  PROVE  Posted' /\ Signal'
<1>0. Shape /\ Posted /\ Signal
  BY DEF FrontierInv
<1>1. /\ state' = "failed" /\ operation' = "none" /\ pending' = << >> /\ active' = {}
      /\ fenced' = fenced /\ UNCHANGED <<caller, inbox, box, out, engine, current, batch, gen>>
  BY DEF Revoke, engine_
<1>2. Posted'
  <2>1. TokensOf(pending)' = {}
    BY <1>1 DEF TokensOf, Toks
  <2> QED BY <1>0, <1>1, <2>1, PostedLess
<1>3. Signals' = Signals /\ (Signalling' <=> Signalling) /\ (Signalled' <=> Signalled) /\ ~Calm' /\ ~Fencing'
  BY <1>1 DEF Signals, Signalling, Signalled, Calm, Fencing
<1>4. OneSignal'
  BY <1>0, <1>1, <1>3 DEF Signal, OneSignal
<1>5. Dead'
  BY <1>0, <1>1 DEF Signal, Dead
<1>6. Fence'
  BY <1>1, <1>3 DEF Fence
<1> QED BY <1>2, <1>4, <1>5, <1>6 DEF Signal

\* Every submitted command is delivered, and the signal behind it.
LEMMA RestartFrontier ==
  ASSUME FrontierInv, Restart
  PROVE  Posted' /\ Signal'
<1>0. Shape /\ Posted /\ Signal /\ Calm
  BY DEF FrontierInv, Restart, Calm
<1>1. /\ operation' = "draining" /\ state' = "draining" /\ pending' = << >>
      /\ fenced' = active \cup {pending[i].tok : i \in 1..Len(pending)} /\ active' = fenced'
      /\ box' = IF engine.up THEN Append(box \o pending, Drain) ELSE box
      /\ UNCHANGED <<caller, inbox, out, engine, current, batch, gen>>
  BY DEF Restart, engine_
<1>2. pending \in Seq(Order) /\ box \in Seq(Order) /\ Drain \in Order /\ Drain.op = "drain"
  BY <1>0 DEF Shape, Drain, Order, AnyToken
<1>3. Posted'
  <2>1. TokensOf(pending)' = {}
    BY <1>1 DEF TokensOf, Toks
  <2>2. fenced' \subseteq active \cup TokensOf(pending)
    BY <1>1, <1>2 DEF TokensOf, Toks
  <2> QED BY <1>0, <1>1, <2>1, <2>2, PostedLess
<1>4. Signals = {} /\ ~Signalling /\ ~Signalled
  BY <1>0 DEF Signal, OneSignal
<1>5. ~Signalling' /\ ~Signalled' /\ ~Calm'
  BY <1>1, <1>4 DEF Signalling, Signalled, Calm
<1>6. CASE engine.up
  <2> DEFINE q == box \o pending
             last == Len(q) + 1
  <2>1. /\ q \in Seq(Order)
        /\ \A i \in DOMAIN q : \/ i \in DOMAIN box /\ q[i] = box[i]
                               \/ i - Len(box) \in DOMAIN pending /\ q[i] = pending[i - Len(box)]
    BY <1>2, ConcatAt
  <2>2. \A i \in DOMAIN q : q[i].op # "drain"
    BY <1>0, <1>4, <2>1 DEF Signals, Signal, Fence
  <2>3. box' = Append(q, Drain)
    BY <1>1, <1>6
  <2> HIDE DEF q
  <2>4. /\ Len(q) \in Nat /\ DOMAIN q = 1..Len(q) /\ DOMAIN box' = 1..last
        /\ \A i \in DOMAIN q : box'[i] = q[i]
        /\ box'[last] = Drain
    BY <1>2, <2>1, <2>3
  <2>5. Signals' = {last}
    BY <1>2, <2>2, <2>4 DEF Signals
  <2>6. OneSignal'
    BY <1>1, <1>5, <2>4, <2>5 DEF OneSignal
  <2>7. Dead'
    BY <1>0, <1>1, <1>6 DEF Signal, Dead
  <2>8. \A i \in DOMAIN box' \ Signals' : box'[i].tok \in fenced' => \E j \in Signals' : i < j
    <3>1. \A i \in DOMAIN box' \ {last} : i < last
      BY <2>4
    <3> QED BY <2>5, <3>1
  <2>9. Fence'
    <3>1. Signals' # {} /\ DOMAIN pending' = {} /\ operation' # "closing"
      BY <1>1, <2>5
    <3> QED BY <2>8, <3>1 DEF Fence
  <2> QED BY <1>3, <2>6, <2>7, <2>9 DEF Signal
<1>7. CASE ~engine.up
  <2>1. box' = << >> /\ batch' = << >>
    BY <1>0, <1>1, <1>7 DEF Signal, Dead
  <2>2. Signals' = {} /\ DOMAIN box' = {} /\ DOMAIN batch' = {} /\ DOMAIN pending' = {}
    BY <1>1, <2>1 DEF Signals
  <2>3. OneSignal'
    BY <1>1, <1>5, <2>2 DEF OneSignal
  <2>4. Dead'
    BY <1>0, <1>1, <1>7, <2>1 DEF Signal, Dead
  <2>5. Fence'
    BY <1>1, <2>2 DEF Fence
  <2> QED BY <1>3, <2>3, <2>4, <2>5 DEF Signal
<1> QED BY <1>6, <1>7

\* A restart that does not wait fences nothing.
LEMMA ForcedFrontier ==
  ASSUME FrontierInv, ForcedRestart
  PROVE  Posted' /\ Signal'
<1>0. Shape /\ Posted /\ Signal
  BY DEF FrontierInv
<1>1. /\ operation' = "closing" /\ state' = "stopping" /\ fenced' = {}
      /\ UNCHANGED <<caller, inbox, box, out, engine, current, batch, gen, pending, active>>
  BY DEF ForcedRestart, engine_, delivery
<1>2. Posted'
  <2>1. TokensOf(pending)' = TokensOf(pending)
    BY <1>1 DEF TokensOf
  <2> QED BY <1>0, <1>1, <2>1, PostedLess
<1>3. Signals' = Signals /\ (Signalling' <=> Signalling) /\ (Signalled' <=> Signalled) /\ ~Calm'
  BY <1>1 DEF Signals, Signalling, Signalled, Calm
<1>4. OneSignal' /\ Dead' /\ Fence'
  BY <1>0, <1>1, <1>3 DEF Signal, OneSignal, Dead, Fence
<1> QED BY <1>2, <1>4 DEF Signal

\* The Engine has answered the signal: it has taken everything before it.
LEMMA DrainedFrontier ==
  ASSUME FrontierInv, DrainedMsg
  PROVE  Posted' /\ Signal'
<1>0. Shape /\ Posted /\ Signal
  BY DEF FrontierInv
<1>1. /\ out # << >> /\ Head(out).kind = "drained" /\ out' = Tail(out)
      /\ UNCHANGED <<caller, inbox, fenced, box, engine, current, batch, gen, pending, active>>
  BY DEF DrainedMsg, engine_, delivery
<1>2. Posted'
  <2>1. TokensOf(pending)' = TokensOf(pending)
    BY <1>1 DEF TokensOf
  <2> QED BY <1>0, <1>1, <2>1, PostedLess
<1>3. /\ \A i \in DOMAIN out' : \E j \in DOMAIN out : out'[i] = out[j]
      /\ \E j \in DOMAIN out : Head(out) = out[j]
  BY <1>0, <1>1, OutShrinks
<1>4. CASE UNCHANGED <<operation, state>>
  <2>1. UNCHANGED <<engine_, generation, delivery, box>>
    BY <1>4 DEF DrainedMsg, generation, delivery
  <2> QED BY <1>0, <1>2, <1>3, <2>1, SignalSame
<1>5. CASE Head(out).gen = gen /\ operation = "draining" /\ operation' = "closing" /\ state' = "stopping"
  <2>1. Signalled
    BY <1>1, <1>3, <1>5 DEF Signalled
  <2>2. Signals = {} /\ ~Signalling
    BY <1>0, <2>1 DEF Signal, OneSignal
  <2>3. /\ \A i \in DOMAIN box : box[i].tok \notin fenced
        /\ \A i \in DOMAIN batch : batch[i].tok \notin fenced
    BY <1>0, <1>5, <2>2 DEF Signal, Fence
  <2>4. Signals' = {} /\ ~Signalling' /\ ~Calm'
    BY <1>1, <1>5, <2>2 DEF Signals, Signalling, Calm
  <2>5. OneSignal'
    BY <1>5, <2>4 DEF OneSignal
  <2>6. Dead'
    BY <1>0, <1>1, <1>3, <1>5 DEF Signal, Dead
  <2>7. Fence'
    BY <1>0, <1>1, <1>5, <2>3 DEF Signal, Fence, Fencing
  <2> QED BY <1>2, <2>5, <2>6, <2>7 DEF Signal
<1> QED BY <1>4, <1>5 DEF DrainedMsg

\* The next generation starts with nothing in the Engine's hands.
LEMMA StartingFrontier ==
  ASSUME FrontierInv, OperationStarting \/ EngineStarts
  PROVE  Posted' /\ Signal'
<1>0. Shape /\ Posted /\ Signal
  BY DEF FrontierInv
<1>1. UNCHANGED <<caller, inbox, box, out, current, batch, fenced>>
  BY DEF OperationStarting, EngineStarts, engine_
<1>2. ~engine.up /\ box = << >> /\ current = None /\ batch = << >>
  BY <1>0 DEF Signal, Dead, OperationStarting, EngineStarts
<1>3. Signals' = {} /\ ~Signalling' /\ DOMAIN box' = {} /\ DOMAIN batch' = {}
  BY <1>1, <1>2 DEF Signals, Signalling
<1>4. CASE OperationStarting
  <2>1. /\ gen' = gen + 1 /\ state' = "recovering" /\ operation' = "starting" /\ engine' = engine
        /\ pending' = << >> /\ active' = {} /\ gen \in Nat /\ engine.gen \in Nat
        /\ \A i \in DOMAIN out : out[i].gen \in Nat
    <3>1. /\ gen' = gen + 1 /\ state' = "recovering" /\ operation' = "starting" /\ engine' = engine
          /\ pending' = << >> /\ active' = {}
      BY <1>4 DEF OperationStarting, ClearGeneration, engine_
    <3>2. gen \in Nat /\ engine.gen \in Nat
      BY <1>0 DEF Shape, EngineState
    <3>3. \A i \in DOMAIN out : out[i] \in Reply
      BY <1>0 DEF Shape
    <3>4. \A i \in DOMAIN out : out[i].gen \in Nat
      BY <3>3 DEF Reply
    <3> QED BY <3>1, <3>2, <3>4
  <2>2. Posted'
    <3>1. TokensOf(pending)' = {}
      BY <2>1 DEF TokensOf, Toks
    <3> QED BY <1>0, <1>1, <2>1, <3>1, PostedLess
  <2>3. ~Signalled'
    BY <1>0, <1>1, <2>1 DEF Signalled, Signal, Dead
  <2>4. Dead'
    BY <1>0, <1>1, <1>2, <2>1 DEF Signal, Dead
  <2>5. OneSignal' /\ Fence'
    BY <1>3, <2>1, <2>3 DEF OneSignal, Fence, Fencing
  <2> QED BY <2>2, <2>4, <2>5 DEF Signal
<1>5. CASE EngineStarts
  <2>1. /\ operation = "starting" /\ operation' = "none" /\ gen' = gen /\ pending' = pending
        /\ active' = active
        /\ engine' = engine \/ engine' = [up |-> TRUE, gen |-> gen, draining |-> FALSE]
    BY <1>5 DEF EngineStarts, delivery
  <2>2. Posted'
    <3>1. TokensOf(pending)' = TokensOf(pending)
      BY <2>1 DEF TokensOf
    <3> QED BY <1>0, <1>1, <2>1, <3>1, PostedLess
  <2>3. ~Signalled'
    BY <1>0, <1>1, <2>1 DEF Signalled, Signal, OneSignal
  <2>4. engine'.gen <= gen
    BY <1>0, <2>1 DEF Shape, Signal, Dead
  <2>5. Dead'
    BY <1>0, <1>1, <1>2, <2>1, <2>4 DEF Signal, Dead
  <2>6. OneSignal' /\ Fence'
    BY <1>0, <1>3, <2>1, <2>3 DEF OneSignal, Fence, Fencing, Signal
  <2> QED BY <2>2, <2>5, <2>6 DEF Signal
<1> QED BY <1>4, <1>5

---------------------------------------------------------------------------
(* The Engine and the frontier *)

\* The Engine takes its first message.
LEMMA TakesFrontier ==
  ASSUME FrontierInv, EngineTakes
  PROVE  Posted' /\ Signal'
<1> DEFINE cmd == Head(box)
<1>0. Shape /\ Posted /\ Signal
  BY DEF FrontierInv
<1>1. /\ engine.up /\ current = None /\ box # << >> /\ box' = Tail(box)
      /\ UNCHANGED <<caller, inbox, generation, pending, active, engine>>
  BY DEF EngineTakes, engine_, delivery
<1>2. gen' = gen /\ state' = state /\ operation' = operation /\ fenced' = fenced
  BY <1>1 DEF generation
<1>3. Posted'
  <2>1. TokensOf(pending)' = TokensOf(pending)
    BY <1>1 DEF TokensOf
  <2> QED BY <1>0, <1>1, <1>2, <2>1, PostedLess
<1>4. /\ \A i \in DOMAIN box' : i \in Nat /\ i + 1 \in DOMAIN box /\ box'[i] = box[i + 1]
      /\ \A i \in DOMAIN box : i \in Nat /\ (i = 1 \/ (i - 1 \in DOMAIN box' /\ box'[i - 1] = box[i]))
      /\ 1 \in DOMAIN box /\ cmd = box[1] /\ cmd \in Order
  <2>1. box \in Seq(Order)
    BY <1>0 DEF Shape
  <2>2. /\ Len(box) \in Nat /\ DOMAIN box = 1..Len(box) /\ Len(box) > 0 /\ cmd = box[1] /\ cmd \in Order
        /\ DOMAIN box' = 1..(Len(box) - 1) /\ \A i \in 1..(Len(box) - 1) : box'[i] = box[i + 1]
    BY <1>1, <2>1
  <2> HIDE DEF cmd
  <2> QED BY <2>2
<1>5. /\ batch' = batch \/ (batch' = Append(batch, cmd) /\ cmd.op = "insert")
      /\ \/ current' = None /\ cmd.op # "drain"
         \/ current' = cmd /\ batch' = batch
      /\ out' = out \/ out' = Append(out, Message("yielded", cmd, "ok"))
  BY <1>1 DEF EngineTakes, engine_
<1>6. \A i \in DOMAIN out' :
        \/ i \in DOMAIN out /\ out'[i] = out[i]
        \/ out'[i].kind = "yielded" /\ out'[i].gen = engine.gen
  <2>1. out \in Seq(Reply)
    BY <1>0 DEF Shape
  <2>2. CASE out' = Append(out, Message("yielded", cmd, "ok"))
    <3> DEFINE m == Message("yielded", cmd, "ok")
    <3>1. m.kind = "yielded" /\ m.gen = engine.gen
      BY DEF Message
    <3> HIDE DEF m
    <3>2. \A i \in DOMAIN Append(out, m) :
            (i \in DOMAIN out /\ Append(out, m)[i] = out[i]) \/ Append(out, m)[i] = m
      BY <2>1
    <3>3. out' = Append(out, m)
      BY <2>2 DEF m
    <3> QED BY <3>1, <3>2, <3>3
  <2> QED BY <1>5, <2>2
<1> HIDE DEF cmd
<1>7. /\ \A i \in Signals' : i + 1 \in Signals
      /\ \A i \in Signals : i = 1 \/ i - 1 \in Signals'
      /\ cmd.op = "drain" => 1 \in Signals
      /\ \A i \in Signals' : i \in Nat
  BY <1>4 DEF Signals
<1>8. (Signalled' => Signalled) /\ (Calm' <=> Calm) /\ (Fencing' <=> Fencing)
  BY <1>2, <1>6 DEF Signalled, Calm, Fencing
<1>9. Signalling' => cmd.op = "drain"
  BY <1>5 DEF Signalling
<1>10. ~Signalling
  BY <1>1 DEF Signalling
<1>11. \A i, j \in Signals : i = j /\ box[i] = Drain
  BY <1>0 DEF Signal, OneSignal
<1>12. OneSignal'
  <2>1. \A i, j \in Signals' : i = j /\ box'[i] = Drain
    <3>1. ASSUME NEW i \in Signals', NEW j \in Signals' PROVE i = j /\ box'[i] = Drain
      <4>1. i + 1 = j + 1 /\ i \in Nat /\ j \in Nat
        BY <1>7, <1>11
      <4>2. box'[i] = box[i + 1] /\ box[i + 1] = Drain
        BY <1>4, <1>7, <1>11 DEF Signals
      <4> QED BY <4>1, <4>2
    <3> QED BY <3>1
  <2>2. Signalling' => Signals' = {}
    <3>1. ASSUME cmd.op = "drain", NEW i \in Signals' PROVE FALSE
      <4>1. i + 1 = 1 /\ i \in Nat /\ i # 0
        <5>1. i + 1 = 1 /\ i \in Nat
          BY <1>7, <1>11, <3>1
        <5>2. i # 0
          BY <1>4, <1>0, <1>1 DEF Signals, Shape
        <5> QED BY <5>1, <5>2
      <4> QED BY <4>1
    <3> QED BY <1>9, <3>1
  <2>3. Signalled \/ Calm => Signals' = {} /\ ~Signalling'
    <3>1. Signalled \/ Calm => Signals = {}
      BY <1>0 DEF Signal, OneSignal
    <3> QED BY <1>7, <1>9, <3>1
  <2>4. Calm \/ operation = "starting" => ~Signalled
    BY <1>0 DEF Signal, OneSignal
  <2> QED BY <1>2, <1>8, <2>1, <2>2, <2>3, <2>4 DEF OneSignal
<1>13. Dead'
  <2>1. \A i \in DOMAIN out' : out'[i].gen <= gen
    BY <1>0, <1>6 DEF Signal, Dead
  <2> QED BY <1>0, <1>1, <1>2, <2>1 DEF Signal, Dead
<1>14. Fence'
  <2>1. \A i \in DOMAIN pending' :
          pending'[i].op # "drain" /\ (Fencing' => pending'[i].tok \notin fenced')
    BY <1>0, <1>1, <1>2, <1>8 DEF Signal, Fence
  <2>2. \A i \in DOMAIN batch' : (\E j \in DOMAIN batch : batch'[i] = batch[j])
                                 \/ (batch'[i] = cmd /\ cmd.op = "insert")
    <3>1. batch \in Seq(Order)
      BY <1>0 DEF Shape
    <3>2. \A i \in DOMAIN Append(batch, cmd) :
            (i \in DOMAIN batch /\ Append(batch, cmd)[i] = batch[i]) \/ Append(batch, cmd)[i] = cmd
      BY <1>4, <3>1
    <3> QED BY <1>5, <3>2
  <2>3. ASSUME operation = "draining"
        PROVE  /\ \A i \in DOMAIN box' \ Signals' : box'[i].tok \in fenced => \E j \in Signals' : i < j
               /\ \A i \in DOMAIN batch' : batch'[i].tok \in fenced => Signalling' \/ Signals' # {}
    <3>1. \A i \in DOMAIN box \ Signals : box[i].tok \in fenced => \E j \in Signals : i < j
      BY <1>0, <2>3 DEF Signal, Fence
    <3>2. ASSUME NEW i \in DOMAIN box' \ Signals', box'[i].tok \in fenced PROVE \E j \in Signals' : i < j
      <4>1. i \in Nat /\ i + 1 \in DOMAIN box \ Signals /\ box[i + 1].tok \in fenced
        BY <1>4, <3>2 DEF Signals
      <4>2. PICK j \in Signals : i + 1 < j
        BY <3>1, <4>1
      <4>3. j \in Nat /\ j # 1
        BY <1>4, <4>1, <4>2 DEF Signals
      <4>4. j - 1 \in Signals' /\ i < j - 1
        BY <1>7, <4>1, <4>2, <4>3
      <4> QED BY <4>4
    <3>3. ASSUME Signals # {} PROVE Signalling' \/ Signals' # {}
      <4>1. CASE 1 \in Signals
        <5>1. cmd = Drain /\ cmd.op = "drain"
          BY <1>4, <1>11, <4>1 DEF Signals
        <5> QED BY <1>5, <5>1, NoneAssumption DEF Signalling
      <4>2. CASE 1 \notin Signals
        BY <1>7, <3>3, <4>2
      <4> QED BY <4>1, <4>2
    <3>4. ASSUME NEW i \in DOMAIN batch', batch'[i].tok \in fenced PROVE Signals # {}
      <4>1. CASE \E j \in DOMAIN batch : batch'[i] = batch[j]
        BY <1>0, <1>10, <2>3, <3>4, <4>1 DEF Signal, Fence
      <4>2. CASE batch'[i] = cmd /\ cmd.op = "insert"
        <5>1. 1 \in DOMAIN box \ Signals /\ box[1].tok \in fenced
          BY <1>4, <3>4, <4>2 DEF Signals
        <5> QED BY <3>1, <5>1
      <4> QED BY <2>2, <4>1, <4>2
    <3> QED BY <3>2, <3>3, <3>4
  <2>4. ASSUME operation = "closing"
        PROVE  /\ \A i \in DOMAIN box' : box'[i].tok \notin fenced
               /\ \A i \in DOMAIN batch' : batch'[i].tok \notin fenced
    BY <1>0, <1>4, <2>2, <2>4 DEF Signal, Fence
  <2> QED BY <1>2, <2>1, <2>3, <2>4 DEF Fence
<1> QED BY <1>3, <1>12, <1>13, <1>14 DEF Signal

\* The flush answers the batch.
LEMMA FlushFrontier ==
  ASSUME FrontierInv, FlushBegin \/ FlushCommand \/ FlushFinish
  PROVE  Posted' /\ Signal'
<1>0. Shape /\ Posted /\ Signal
  BY DEF FrontierInv
<1>1. /\ engine.up /\ UNCHANGED <<caller, inbox, pending, active, engine, current, box,
                                   gen, state, operation, fenced>>
      /\ \/ batch' = batch /\ out' = out
         \/ batch' = << >> /\ out' = out \o [i \in 1..Len(batch) |->
                                               Message("completed", batch[i], results[i])]
  BY Zenon DEF FlushBegin, FlushCommand, FlushFinish, delivery, generation
<1>2. Posted'
  <2>1. TokensOf(pending)' = TokensOf(pending)
    BY <1>1 DEF TokensOf
  <2> QED BY <1>0, <1>1, <2>1, PostedLess
<1>3. \A i \in DOMAIN out' :
        \/ i \in DOMAIN out /\ out'[i] = out[i]
        \/ out'[i].kind = "completed" /\ out'[i].gen = engine.gen
  <2> DEFINE s == [i \in 1..Len(batch) |-> Message("completed", batch[i], results[i])]
  <2>1. \A i \in DOMAIN s : s[i].kind = "completed" /\ s[i].gen = engine.gen
    BY DEF Message
  <2>2. s \in Seq({s[i] : i \in DOMAIN s} \cup Reply) /\ out \in Seq({s[i] : i \in DOMAIN s} \cup Reply)
    <3>1. batch \in Seq(Order) /\ out \in Seq(Reply) /\ Len(batch) \in Nat
      BY <1>0 DEF Shape
    <3> QED BY <3>1
  <2> HIDE DEF s
  <2>3. \A i \in DOMAIN (out \o s) :
          \/ i \in DOMAIN out /\ (out \o s)[i] = out[i]
          \/ i - Len(out) \in DOMAIN s /\ (out \o s)[i] = s[i - Len(out)]
    BY <2>2, ConcatAt
  <2>4. out' = out \/ out' = out \o s
    BY <1>1 DEF s
  <2> QED BY <2>1, <2>3, <2>4
<1>4. /\ Signals' = Signals /\ (Signalling' <=> Signalling) /\ (Signalled' => Signalled)
      /\ (Calm' <=> Calm) /\ (Fencing' <=> Fencing)
  BY <1>1, <1>3 DEF Signals, Signalling, Signalled, Calm, Fencing
<1>5. OneSignal'
  BY <1>0, <1>1, <1>4 DEF Signal, OneSignal
<1>6. Dead'
  <2>1. \A i \in DOMAIN out' : out'[i].gen <= gen
    BY <1>0, <1>3 DEF Signal, Dead
  <2> QED BY <1>0, <1>1, <2>1 DEF Signal, Dead
<1>7. Fence'
  <2>1. \A i \in DOMAIN batch' : i \in DOMAIN batch /\ batch'[i] = batch[i]
    BY <1>1
  <2> QED BY <1>0, <1>1, <1>4, <2>1 DEF Signal, Fence
<1> QED BY <1>2, <1>5, <1>6, <1>7 DEF Signal

\* The Engine executes the command in its hands, when the batch before it is
\* flushed.
LEMMA ExecutesFrontier ==
  ASSUME FrontierInv, EngineExecutes
  PROVE  Posted' /\ Signal'
<1>0. Shape /\ Posted /\ Signal
  BY DEF FrontierInv
<1>1. /\ engine.up /\ current # None /\ batch = << >> /\ current' = None
      /\ UNCHANGED <<caller, inbox, pending, active, box, batch, gen, state, operation, fenced>>
  BY DEF EngineExecutes, delivery, generation
<1>2. /\ engine'.up = engine.up /\ engine'.gen = engine.gen
      /\ \/ out' = out
         \/ /\ out' = Append(out, Message("drained", current, "ok"))
            /\ current.op = "drain" /\ operation = "draining"
         \/ \E r \in {"ok", "draining"} : out' = Append(out, Message("completed", current, r))
  <2>1. engine' = engine \/ engine' = [engine EXCEPT !.draining = TRUE]
    BY DEF EngineExecutes
  <2>2. engine'.up = engine.up /\ engine'.gen = engine.gen
    BY <1>0, <2>1 DEF Shape, EngineState
  <2>3. \/ out' = out
        \/ /\ out' = Append(out, Message("drained", current, "ok"))
           /\ current.op = "drain" /\ operation = "draining"
        \/ \E r \in {"ok", "draining"} : out' = Append(out, Message("completed", current, r))
    BY DEF EngineExecutes
  <2> QED BY <2>2, <2>3
<1>3. Posted'
  <2>1. TokensOf(pending)' = TokensOf(pending)
    BY <1>1 DEF TokensOf
  <2> QED BY <1>0, <1>1, <2>1, PostedLess
<1>4. \A i \in DOMAIN out' :
        \/ i \in DOMAIN out /\ out'[i] = out[i]
        \/ /\ out'[i].gen = engine.gen
           /\ out'[i].kind = "drained" => Signalling /\ operation = "draining"
  <2>1. out \in Seq(Reply)
    BY <1>0 DEF Shape
  <2>2. ASSUME NEW m, out' = Append(out, m), m.gen = engine.gen,
               m.kind = "drained" => Signalling /\ operation = "draining"
        PROVE  \A i \in DOMAIN out' :
                 \/ i \in DOMAIN out /\ out'[i] = out[i]
                 \/ /\ out'[i].gen = engine.gen
                    /\ out'[i].kind = "drained" => Signalling /\ operation = "draining"
    <3>1. \A i \in DOMAIN Append(out, m) :
            (i \in DOMAIN out /\ Append(out, m)[i] = out[i]) \/ Append(out, m)[i] = m
      BY <2>1
    <3> QED BY <2>2, <3>1
  <2>3. CASE /\ out' = Append(out, Message("drained", current, "ok"))
             /\ current.op = "drain" /\ operation = "draining"
    <3>1. Message("drained", current, "ok").gen = engine.gen /\ Signalling
      BY <1>1, <2>3 DEF Message, Signalling
    <3> QED BY <2>2, <2>3, <3>1
  <2>4. ASSUME NEW r, out' = Append(out, Message("completed", current, r))
        PROVE  \A i \in DOMAIN out' :
                 \/ i \in DOMAIN out /\ out'[i] = out[i]
                 \/ /\ out'[i].gen = engine.gen
                    /\ out'[i].kind = "drained" => Signalling /\ operation = "draining"
    <3>1. /\ Message("completed", current, r).gen = engine.gen
          /\ Message("completed", current, r).kind = "completed"
      BY DEF Message
    <3> QED BY <2>2, <2>4, <3>1
  <2>5. CASE out' = out
    BY <2>5
  <2> QED BY <1>2, <2>3, <2>4, <2>5
<1>5. /\ Signals' = Signals /\ ~Signalling' /\ (Calm' <=> Calm) /\ (Fencing' <=> Fencing)
      /\ Signalled' => Signalled \/ (Signalling /\ operation = "draining")
  BY <1>1, <1>4 DEF Signals, Signalling, Signalled, Calm, Fencing
<1>6. OneSignal'
  <2>1. operation = "draining" => ~Calm
    BY DEF Calm
  <2> QED BY <1>0, <1>1, <1>5, <2>1 DEF Signal, OneSignal
<1>7. Dead'
  <2>1. \A i \in DOMAIN out' : out'[i].gen <= gen
    BY <1>0, <1>4 DEF Signal, Dead
  <2> QED BY <1>0, <1>1, <1>2, <2>1 DEF Signal, Dead
<1>8. Fence'
  <2>1. DOMAIN batch' = {}
    BY <1>1
  <2> QED BY <1>0, <1>1, <1>5, <2>1 DEF Signal, Fence
<1> QED BY <1>3, <1>6, <1>7, <1>8 DEF Signal

\* The death of the Engine leaves nothing before or behind a signal.
LEMMA DiesFrontier ==
  ASSUME FrontierInv, EngineDies
  PROVE  Posted' /\ Signal'
<1>0. Shape /\ Posted /\ Signal
  BY DEF FrontierInv
<1>1. /\ engine' = [engine EXCEPT !.up = FALSE] /\ box' = << >> /\ batch' = << >> /\ current' = None
      /\ UNCHANGED <<caller, inbox, pending, active, out, gen, state, operation, fenced>>
  BY DEF EngineDies, delivery, generation
<1>2. ~engine'.up /\ engine'.gen = engine.gen
  BY <1>0, <1>1 DEF Shape, EngineState
<1>3. Posted'
  <2>1. TokensOf(pending)' = TokensOf(pending)
    BY <1>1 DEF TokensOf
  <2> QED BY <1>0, <1>1, <2>1, PostedLess
<1>4. /\ Signals' = {} /\ ~Signalling' /\ (Signalled' <=> Signalled) /\ (Calm' <=> Calm)
      /\ (Fencing' <=> Fencing) /\ DOMAIN box' = {} /\ DOMAIN batch' = {}
  BY <1>1 DEF Signals, Signalling, Signalled, Calm, Fencing
<1>5. OneSignal' /\ Dead' /\ Fence'
  <2>1. OneSignal'
    BY <1>0, <1>1, <1>4 DEF Signal, OneSignal
  <2>2. Dead'
    BY <1>0, <1>1, <1>2 DEF Signal, Dead
  <2>3. Fence'
    BY <1>0, <1>1, <1>4 DEF Signal, Fence
  <2> QED BY <2>1, <2>2, <2>3
<1> QED BY <1>3, <1>5 DEF Signal

---------------------------------------------------------------------------

\* Every step keeps the fenced commands before the signal.
LEMMA FrontierStep == FrontierInv /\ [Next]_vars => FrontierInv'
<1> SUFFICES ASSUME FrontierInv, [Next]_vars
             PROVE  Posted' /\ Signal'
  BY ShapeStep DEF FrontierInv
<1>0. Shape /\ Posted /\ Signal
  BY DEF FrontierInv
<1>1. ASSUME NEW c \in Client, ClientStep(c) PROVE Posted' /\ Signal'
  <2>1. UNCHANGED <<generation, delivery, engine_, box, out>>
    BY <1>1 DEF ClientStep, Request, Claim, Submit, Timeout, Die
  <2>2. \A i \in DOMAIN out' : \E j \in DOMAIN out : out'[i] = out[j]
    BY <2>1
  <2> QED BY <1>0, <1>1, <2>1, <2>2, CallersPost, SignalSame
<1>2. ASSUME NEW c \in Client, GuardianStep(c) PROVE Posted' /\ Signal'
  <2>1. ASSUME NEW expired \in BOOLEAN, ReserveMsg(c, expired) PROVE Posted' /\ Signal'
    <3>1. /\ inbox[c] # << >> /\ inbox' = [inbox EXCEPT ![c] = Tail(@)]
          /\ UNCHANGED <<generation, delivery, engine_, box, out>>
          /\ \E next \in {"idle", "granted"} : Answer(Head(inbox[c]).tok, "reserving", next)
      BY <2>1 DEF ReserveMsg, Refuse
    <3>2. \A d \in Client : caller'[d].n = caller[d].n /\ (Early(d)' => Early(d))
      BY <1>0, <3>1, AnswerQuiet
    <3> QED BY <3>1, <3>2, LetterFrontier, Zenon
  <2>2. CASE CancelMsg(c) \/ DownMsg(c)
    <3>1. /\ inbox[c] # << >> /\ inbox' = [inbox EXCEPT ![c] = Tail(@)]
          /\ UNCHANGED <<generation, delivery, engine_, box, out, caller>>
      BY <2>2 DEF CancelMsg, DownMsg
    <3>2. \A d \in Client : caller'[d].n = caller[d].n /\ (Early(d)' => Early(d))
      BY <3>1 DEF Early
    <3> QED BY <3>1, <3>2, LetterFrontier, Zenon
  <2> QED BY <1>2, <2>1, <2>2, SubmitFrontier DEF GuardianStep
<1>3. CASE UNCHANGED <<caller, inbox, generation, delivery, engine_, box, out>>
  <2>1. \A i \in DOMAIN out' : \E j \in DOMAIN out : out'[i] = out[j]
    BY <1>3
  <2>2. active' \cup TokensOf(pending)' \cup fenced' = active \cup TokensOf(pending) \cup fenced
    BY <1>3 DEF delivery, generation, TokensOf
  <2> QED BY <1>0, <1>3, <2>1, <2>2, PostedLess, SignalSame
<1>4. ASSUME NEW expired, Reap(expired) PROVE Posted' /\ Signal'
  BY <1>3, <1>4 DEF Reap
<1>5. CASE UNCHANGED vars
  BY <1>3, <1>5 DEF vars
<1>6. CASE CompletedMsg \/ YieldedMsg \/ \E x \in coordinator : CoordinatorDone(x)
  BY <1>6, DeliveryFrontier
<1>7. CASE DrainedMsg \/ Revoke \/ Restart \/ ForcedRestart \/ OperationStarting \/ EngineStarts
  BY <1>7, DrainedFrontier, RevokeFrontier, RestartFrontier, ForcedFrontier, StartingFrontier
<1>8. CASE EngineTakes \/ FlushBegin \/ FlushCommand \/ FlushFinish \/ EngineExecutes \/ EngineDies
  BY <1>8, TakesFrontier, FlushFrontier, ExecutesFrontier, DiesFrontier
<1> QED BY <1>1, <1>2, <1>4, <1>5, <1>6, <1>7, <1>8 DEF Next

\* At the start nothing is fenced, and no signal is sent.
LEMMA FrontierInit == Init => FrontierInv
<1> SUFFICES ASSUME Init PROVE Posted /\ Signal
  BY ShapeInit DEF FrontierInv
<1>1. /\ \A c \in Client : inbox[c] = << >>
      /\ box = << >> /\ out = << >> /\ current = None /\ batch = << >> /\ pending = << >>
      /\ fenced = {} /\ active = {} /\ operation = "none" /\ gen = 0
      /\ engine.up /\ engine.gen = 0
  BY DEF Init
<1>2. Posted
  <2>0. DOMAIN << >> = {}
    OBVIOUS
  <2>1. \A c \in Client : Once(inbox[c], Letters) /\ Asked(c) = {}
    BY <1>1, <2>0, EmptyToks DEF Asked
  <2>2. TokensOf(pending) = {}
    BY <1>1, EmptyToks DEF TokensOf
  <2> QED BY <1>1, <2>1, <2>2 DEF Posted
<1>3. Signals = {} /\ ~Signalling /\ ~Signalled
  BY <1>1 DEF Signals, Signalling, Signalled
<1>4. Signal
  BY <1>1, <1>3 DEF Signal, OneSignal, Dead, Fence, Fencing
<1> QED BY <1>2, <1>4

\* When the guardian closes the Engine of a drained generation, none of the
\* commands the restart fenced off is still waiting at the guardian, in the
\* Engine's mailbox or in its batch: each was executed, or withdrawn, first.
THEOREM DrainIsFrontier == Spec => []DrainFrontier
<1>1. FrontierInv => DrainFrontier
  <2> SUFFICES ASSUME FrontierInv, operation = "closing", NEW tok \in fenced,
                      NEW s \in {pending, box, batch}, NEW i \in 1..Len(s)
               PROVE  s[i].tok # tok
    BY DEF DrainFrontier
  <2>1. Shape /\ Fence
    BY DEF FrontierInv, Signal
  <2>2. i \in DOMAIN s
    BY <2>1 DEF Shape
  <2> QED BY <2>1, <2>2 DEF Fence, Fencing
<1> QED BY <1>1, FrontierInit, FrontierStep, PTL DEF Spec

---------------------------------------------------------------------------
(* The byte budget *)

\* A token that its caller has not claimed a slot with.
Unclaimed(t) ==
  t[2] > caller[t[1]].n \/ (t[2] = caller[t[1]].n /\ caller[t[1]].pc = "started")

\* Tokens whose permit the guardian has reserved.
Charged == {table[k].tok : k \in {l \in Key : table[l].st \in {"reserved", "submitted"}}}

\* No two slots of the table are held under the same token, and the reservations
\* in the mail are for slots of the table.
Titles ==
  /\ table = [k \in Key |-> table[k]]
  /\ \A k \in Key : table[k].st # "free" =>
       /\ table[k].tok \in Client \X Nat /\ ~Unclaimed(table[k].tok)
       /\ \A l \in Key : table[l].st # "free" /\ table[l].tok = table[k].tok => l = k
  /\ \A c \in Client : \A i \in DOMAIN inbox[c] :
       inbox[c][i].kind = "reserve" => inbox[c][i].key \in Key

\* The first generation charges payloads of reserved permits, and its Engine
\* what it has written.
Balance ==
  /\ IsFiniteSet(permits)
  /\ operation = "starting" => gen > 0
  /\ gen = 0 =>
       /\ permits \subseteq Charged
       /\ engine.up => mem = Cardinality(permits) + Len(log) + Len(appended)

BudgetInv == Shape /\ Titles /\ Balance

\* A step that opens no slot and claims nothing keeps the titles.
LEMMA TitlesStay ==
  ASSUME Titles, table' = [k \in Key |-> table'[k]],
         \A k \in Key : table'[k].st = "free" \/
           (table[k].st # "free" /\ table'[k].tok = table[k].tok),
         \A t \in Client \X Nat : Unclaimed(t)' => Unclaimed(t),
         \A c \in Client : \A i \in DOMAIN inbox'[c] : inbox'[c][i].kind = "reserve" =>
           inbox'[c][i].key \in Key
  PROVE  Titles'
<1>1. ASSUME NEW k \in Key, table'[k].st # "free"
      PROVE  /\ table'[k].tok \in Client \X Nat /\ ~Unclaimed(table[k].tok)'
             /\ \A l \in Key : table'[l].st # "free" /\ table'[l].tok = table'[k].tok => l = k
  <2>1. table[k].st # "free" /\ table'[k].tok = table[k].tok
    BY <1>1
  <2>2. table[k].tok \in Client \X Nat /\ ~Unclaimed(table[k].tok)
    BY <2>1 DEF Titles
  <2>3. ASSUME NEW l \in Key, table'[l].st # "free", table'[l].tok = table'[k].tok PROVE l = k
    <3>1. table[l].st # "free" /\ table'[l].tok = table[l].tok
      BY <2>3
    <3> QED BY <2>1, <2>3, <3>1 DEF Titles
  <2>4. ASSUME NEW t, t = table[k].tok PROVE ~Unclaimed(t)'
    BY <2>2, <2>4
  <2>5. ASSUME NEW t, t = table'[k].tok PROVE ~Unclaimed(t)'
    BY <2>1, <2>4, <2>5
  <2>6. ~Unclaimed(table[k].tok)'
    BY <2>5
  <2> QED BY <2>1, <2>2, <2>3, <2>6
<1> QED BY <1>1 DEF Titles

\* The rows that are charged, and the counter, stay.
LEMMA BalanceStays ==
  ASSUME Balance, UNCHANGED <<memory, gen, log, appended>>, operation' # "starting",
         engine'.up => engine.up,
         \A k \in Key : table[k].st \in {"reserved", "submitted"} =>
           table'[k].st \in {"reserved", "submitted"} /\ table'[k].tok = table[k].tok
  PROVE  Balance'
<1>1. Charged \subseteq Charged'
  BY DEF Charged
<1> QED BY <1>1 DEF Balance, memory

INSTANCE FiniteSetTheorems

\* Nothing is held and nothing written at first.
LEMMA BudgetInit == Init => BudgetInv
<1> SUFFICES ASSUME Init PROVE Titles /\ Balance
  BY ShapeInit DEF BudgetInv
<1>1. /\ table = [k \in Key |-> Free] /\ \A c \in Client : inbox[c] = << >>
      /\ permits = {} /\ mem = 0 /\ log = << >> /\ appended = << >> /\ operation = "none"
  BY DEF Init
<1>2. Titles
  BY <1>1 DEF Titles, Free
<1>3. IsFiniteSet(permits) /\ Cardinality(permits) = 0 /\ Len(log) = 0 /\ Len(appended) = 0
  <2>1. IsFiniteSet(permits) /\ Cardinality(permits) = 0
    BY <1>1, FS_EmptySet, Zenon
  <2>2. Len(log) = 0 /\ Len(appended) = 0
    BY <1>1
  <2> QED BY <2>1, <2>2
<1>4. Balance
  BY <1>1, <1>3 DEF Balance
<1> QED BY <1>2, <1>4

\* Giving back permits gives back their charges.
LEMMA BalanceReleases ==
  ASSUME Balance, NEW keys, ReleaseKeys(keys), UNCHANGED <<gen, operation, engine, log, appended>>
  PROVE  Balance'
<1> DEFINE toks == {table[k].tok : k \in keys}
<1>1. /\ permits' = permits \ toks /\ mem' = mem - Cardinality(permits \cap toks)
      /\ table' = [k \in Key |-> IF k \in keys THEN Free ELSE table[k]]
  BY DEF ReleaseKeys, ReleaseMemory
<1>2. permits \subseteq Charged => permits' \subseteq Charged'
  <2>1. ASSUME NEW t \in Charged, t \notin toks PROVE t \in Charged'
    <3>1. PICK k \in Key : table[k].st \in {"reserved", "submitted"} /\ table[k].tok = t
      BY <2>1 DEF Charged
    <3>2. k \notin keys
      BY <2>1, <3>1
    <3>3. table'[k] = table[k]
      BY <1>1, <3>2
    <3> QED BY <3>1, <3>3 DEF Charged
  <2> QED BY <1>1, <2>1
<1> HIDE DEF toks
<1>3. IsFiniteSet(permits)
  BY DEF Balance
<1>4. /\ IsFiniteSet(permits')
      /\ Cardinality(permits') = Cardinality(permits) - Cardinality(permits \cap toks)
  BY <1>1, <1>3, FS_Difference
<1>5. /\ Cardinality(permits) \in Nat /\ Cardinality(permits \cap toks) \in Nat
  <2>1. IsFiniteSet(permits \cap toks)
    BY <1>3, FS_Intersection
  <2> QED BY <1>3, <2>1, FS_CardinalityType
<1> QED BY <1>1, <1>2, <1>4, <1>5 DEF Balance

\* A message of a caller reaches its mailbox, or the guardian takes one.
LEMMA ReservesStay ==
  ASSUME Shape, Titles, NEW c \in Client,
         \/ \E m : inbox' = [inbox EXCEPT ![c] = Append(@, m)] /\
                   (m.kind = "reserve" => m.key \in Key)
         \/ inbox[c] # << >> /\ inbox' = [inbox EXCEPT ![c] = Tail(@)]
         \/ inbox' = inbox
  PROVE  \A d \in Client : \A i \in DOMAIN inbox'[d] : inbox'[d][i].kind = "reserve" =>
           inbox'[d][i].key \in Key
<1>1. inbox \in [Client -> Seq(Mail)]
  BY DEF Shape
<1>2. \A d \in Client : \A i \in DOMAIN inbox[d] : inbox[d][i].kind = "reserve" =>
        inbox[d][i].key \in Key
  BY DEF Titles
<1>3. CASE inbox' = inbox
  BY <1>2, <1>3
<1>4. ASSUME NEW m, inbox' = [inbox EXCEPT ![c] = Append(@, m)], m.kind = "reserve" => m.key \in Key,
             NEW d \in Client, NEW i \in DOMAIN inbox'[d], inbox'[d][i].kind = "reserve"
      PROVE  inbox'[d][i].key \in Key
  <2>1. CASE d # c
    BY <1>1, <1>2, <1>4, <2>1
  <2>2. CASE d = c
    <3>1. inbox'[d] = Append(inbox[c], m) /\ inbox[c] \in Seq(Mail)
      BY <1>1, <1>4, <2>2
    <3>2. \A j \in DOMAIN Append(inbox[c], m) :
            (j \in DOMAIN inbox[c] /\ Append(inbox[c], m)[j] = inbox[c][j]) \/ Append(inbox[c], m)[j] = m
      BY <3>1
    <3>3. (i \in DOMAIN inbox[c] /\ inbox'[d][i] = inbox[c][i]) \/ inbox'[d][i] = m
      BY <1>4, <3>1, <3>2, Zenon
    <3> QED BY <1>2, <1>4, <3>3
  <2> QED BY <2>1, <2>2
<1>5. ASSUME inbox[c] # << >>, inbox' = [inbox EXCEPT ![c] = Tail(@)],
             NEW d \in Client, NEW i \in DOMAIN inbox'[d], inbox'[d][i].kind = "reserve"
      PROVE  inbox'[d][i].key \in Key
  <2>1. CASE d # c
    BY <1>1, <1>2, <1>5, <2>1
  <2>2. CASE d = c
    <3>1. inbox'[d] = Tail(inbox[c]) /\ inbox[c] \in Seq(Mail)
      BY <1>1, <1>5, <2>2
    <3>2. \A j \in DOMAIN Tail(inbox[c]) : j + 1 \in DOMAIN inbox[c] /\ Tail(inbox[c])[j] = inbox[c][j + 1]
      BY <1>5, <3>1
    <3>3. i + 1 \in DOMAIN inbox[c] /\ inbox'[d][i] = inbox[c][i + 1]
      BY <1>5, <3>1, <3>2, Zenon
    <3> QED BY <1>2, <1>5, <3>3
  <2> QED BY <2>1, <2>2
<1> QED BY <1>3, <1>4, <1>5

\* No caller goes back to where it may claim a slot, but with a new token.
LEMMA ClaimsStay ==
  ASSUME Shape,
         \A d \in Client : caller'[d].n = caller[d].n /\
                           (caller'[d].pc = "started" => caller[d].pc = "started")
  PROVE  \A t \in Client \X Nat : Unclaimed(t)' => Unclaimed(t)
<1> SUFFICES ASSUME NEW t \in Client \X Nat PROVE Unclaimed(t)' => Unclaimed(t)
  OBVIOUS
<1>1. t[1] \in Client
  OBVIOUS
<1> QED BY <1>1 DEF Unclaimed

\* An answer puts its caller where it claims nothing.
LEMMA AnswerClaims ==
  ASSUME Shape, NEW tok, NEW pc, NEW next, next # "started", Answer(tok, pc, next)
  PROVE  \A t \in Client \X Nat : Unclaimed(t)' => Unclaimed(t)
<1>1. caller \in [Client -> CallerState]
  BY DEF Shape
<1>2. CASE caller' = caller
  BY <1>2, ClaimsStay
<1>3. CASE caller' = [caller EXCEPT ![Owner(tok)].pc = next]
  <2>1. \A d \in Client : caller'[d].n = caller[d].n /\
                          (caller'[d].pc = "started" => caller[d].pc = "started")
    BY <1>1, <1>3 DEF CallerState
  <2> QED BY <2>1, ClaimsStay
<1> QED BY <1>2, <1>3 DEF Answer

\* Freed slots keep the titles of the others.
LEMMA FreeTitles ==
  ASSUME Titles, NEW keys, table' = [k \in Key |-> IF k \in keys THEN Free ELSE table[k]]
  PROVE  /\ table' = [k \in Key |-> table'[k]]
         /\ \A k \in Key : table'[k].st = "free" \/
              (table[k].st # "free" /\ table'[k].tok = table[k].tok)
<1>1. \A k \in Key : table'[k] = IF k \in keys THEN Free ELSE table[k]
  OBVIOUS
<1>2. table' = [k \in Key |-> table'[k]]
  OBVIOUS
<1>3. \A k \in Key : table'[k].st = "free" \/ table'[k] = table[k]
  BY <1>1 DEF Free
<1> QED BY <1>2, <1>3

---------------------------------------------------------------------------

\* The callers: a claim takes a free slot under a token of its own.
LEMMA ClientBudget ==
  ASSUME BudgetInv, NEW c \in Client, ClientStep(c)
  PROVE  Titles' /\ Balance'
<1>0. Shape /\ Titles /\ Balance
  BY DEF BudgetInv
<1>1. /\ caller \in [Client -> CallerState] /\ caller[c].n \in Nat
      /\ caller[c].key \in {caller[c].key}
  BY <1>0 DEF Shape, CallerState
<1>2. UNCHANGED <<memory, gen, log, appended, operation, engine>>
  BY DEF ClientStep, Request, Claim, Submit, Timeout, Die, generation, engine_
<1>3. ASSUME table' = table PROVE Balance'
  BY <1>0, <1>2, <1>3 DEF Balance, Charged, memory
<1>4. ASSUME table' = table, \A t \in Client \X Nat : Unclaimed(t)' => Unclaimed(t),
             \/ \E m : inbox' = [inbox EXCEPT ![c] = Append(@, m)] /\
                       (m.kind = "reserve" => m.key \in Key)
             \/ inbox' = inbox
      PROVE  Titles'
  <2>1. \A d \in Client : \A i \in DOMAIN inbox'[d] : inbox'[d][i].kind = "reserve" =>
          inbox'[d][i].key \in Key
    BY <1>0, <1>4, ReservesStay
  <2>2. /\ table' = [k \in Key |-> table'[k]]
        /\ \A k \in Key : table'[k].st = "free" \/
             (table[k].st # "free" /\ table'[k].tok = table[k].tok)
    BY <1>0, <1>4 DEF Titles
  <2> QED BY <1>0, <1>4, <2>1, <2>2, TitlesStay
<1>5. ASSUME NEW op \in Op, Request(c, op) PROVE Titles' /\ Balance'
  <2>1. /\ caller' = [caller EXCEPT ![c] = [pc |-> "started", n |-> caller[c].n + 1,
                                            op |-> op, gen |-> gen, key |-> None]]
        /\ table' = table /\ inbox' = inbox
    BY <1>5 DEF Request
  <2>2. ASSUME NEW t \in Client \X Nat, Unclaimed(t)' PROVE Unclaimed(t)
    <3>1. t[1] \in Client /\ t[2] \in Nat
      OBVIOUS
    <3>2. CASE t[1] # c
      BY <1>1, <2>1, <2>2, <3>1, <3>2 DEF Unclaimed
    <3>3. CASE t[1] = c
      <4>1. caller'[c].n = caller[c].n + 1
        BY <1>1, <2>1
      <4>2. t[2] > caller'[c].n \/ t[2] = caller'[c].n
        BY <2>2, <3>3 DEF Unclaimed
      <4>3. t[2] > caller[c].n
        BY <1>1, <3>1, <4>1, <4>2
      <4> QED BY <3>3, <4>3 DEF Unclaimed
    <3> QED BY <3>2, <3>3
  <2> QED BY <1>3, <1>4, <2>1, <2>2
<1>6. ASSUME NEW t, t = TokenOf(c), NEW k \in Key, table[k] = Free, caller[c].pc = "started",
             table' = [table EXCEPT ![k] = [st |-> "claimed", tok |-> TokenOf(c)]],
             caller' = [caller EXCEPT ![c].pc = "reserving", ![c].key = k],
             \E m : inbox' = [inbox EXCEPT ![c] = Append(@, m)] /\ m.key = k
      PROVE  Titles' /\ Balance'
  <2>1. t \in Client \X Nat /\ t[1] = c /\ t[2] = caller[c].n
    BY <1>1, <1>6 DEF TokenOf
  <2>2. Unclaimed(t)
    BY <1>6, <2>1 DEF Unclaimed
  <2>3. \A l \in Key : table[l].st # "free" => table[l].tok # t
    BY <1>0, <2>2 DEF Titles
  <2>4. /\ DOMAIN table = Key /\ table[k].st = "free"
        /\ table' = [table EXCEPT ![k] = [st |-> "claimed", tok |-> t]]
    <3>1. DOMAIN table = Key
      BY <1>0 DEF Titles
    <3> QED BY <1>6, <3>1 DEF Free
  <2>5. /\ table' = [l \in Key |-> table'[l]]
        /\ table'[k].tok = t /\ table'[k].st = "claimed"
        /\ \A l \in Key : l # k => table'[l] = table[l]
    BY <2>4, Zenon
  <2>6. /\ \A d \in Client : caller'[d].n = caller[d].n /\
             (caller'[d].pc = "started" => caller[d].pc = "started")
        /\ caller'[c].pc = "reserving"
    BY <1>1, <1>6 DEF CallerState
  <2>7. \A u \in Client \X Nat : Unclaimed(u)' => Unclaimed(u)
    BY <1>0, <2>6, ClaimsStay
  <2>8. ~Unclaimed(t)'
    <3>1. caller[c].n \in Nat /\ caller'[c].n = caller[c].n
      BY <1>1, <2>6
    <3> QED BY <2>1, <2>6, <3>1 DEF Unclaimed
  <2>9. ASSUME NEW l \in Key, table'[l].st # "free"
        PROVE  /\ table'[l].tok \in Client \X Nat /\ ~Unclaimed(table[l].tok)'
               /\ \A j \in Key : table'[j].st # "free" /\ table'[j].tok = table'[l].tok => j = l
    <3>1. CASE l = k
      <4>1. table'[l].tok = t
        BY <2>5, <3>1
      <4>2. ASSUME NEW j \in Key, table'[j].st # "free", table'[j].tok = t PROVE j = l
        BY <2>3, <2>5, <3>1, <4>2
      <4>3. ~Unclaimed(table[l].tok)'
        BY <2>8, <4>1 DEF Unclaimed
      <4> QED BY <2>1, <4>1, <4>2, <4>3
    <3>2. CASE l # k
      <4>1. table'[l] = table[l] /\ table[l].st # "free"
        BY <2>5, <2>9, <3>2
      <4>2. /\ table[l].tok \in Client \X Nat /\ ~Unclaimed(table[l].tok)
            /\ \A j \in Key : table[j].st # "free" /\ table[j].tok = table[l].tok => j = l
        BY <1>0, <4>1 DEF Titles
      <4>3. ASSUME NEW u, u = table[l].tok PROVE ~Unclaimed(u)'
        BY <2>7, <4>2, <4>3
      <4>4. ~Unclaimed(table[l].tok)'
        BY <4>1, <4>3 DEF Unclaimed
      <4>5. ASSUME NEW j \in Key, table'[j].st # "free", table'[j].tok = table'[l].tok PROVE j = l
        BY <2>3, <2>5, <4>1, <4>2, <4>5
      <4> QED BY <4>1, <4>2, <4>4, <4>5
    <3> QED BY <3>1, <3>2
  <2>10. \A d \in Client : \A i \in DOMAIN inbox'[d] : inbox'[d][i].kind = "reserve" =>
           inbox'[d][i].key \in Key
    BY <1>0, <1>6, ReservesStay, Zenon
  <2>11. Titles'
    BY <2>5, <2>9, <2>10 DEF Titles
  <2>12. Balance'
    <3>1. \A l \in Key : table[l].st \in {"reserved", "submitted"} =>
            table'[l].st \in {"reserved", "submitted"} /\ table'[l].tok = table[l].tok
      BY <2>4, <2>5
    <3>2. Charged \subseteq Charged'
      BY <3>1 DEF Charged
    <3> QED BY <1>0, <1>2, <3>2 DEF Balance, memory
  <2> QED BY <2>11, <2>12
<1>7. CASE Claim(c)
  <2>1. CASE caller' = [caller EXCEPT ![c].pc = "idle"] /\ UNCHANGED <<table, inbox>>
    <3>1. \A d \in Client : caller'[d].n = caller[d].n /\
            (caller'[d].pc = "started" => caller[d].pc = "started")
      BY <1>1, <2>1 DEF CallerState
    <3> QED BY <1>0, <1>3, <1>4, <2>1, <3>1, ClaimsStay
  <2>2. ASSUME NEW k \in Key, table[k] = Free, caller[c].pc = "started",
               table' = [table EXCEPT ![k] = [st |-> "claimed", tok |-> TokenOf(c)]],
               caller' = [caller EXCEPT ![c].pc = "reserving", ![c].key = k],
               inbox' = [inbox EXCEPT ![c] = Append(@, [kind |-> "reserve",
                           tok |-> TokenOf(c), key |-> k, op |-> caller[c].op,
                           gen |-> caller[c].gen])]
        PROVE  Titles' /\ Balance'
    <3> DEFINE m == [kind |-> "reserve", tok |-> TokenOf(c), key |-> k, op |-> caller[c].op,
                     gen |-> caller[c].gen]
    <3>1. inbox' = [inbox EXCEPT ![c] = Append(@, m)] /\ m.key = k
      BY <2>2
    <3> HIDE DEF m
    <3> QED BY <1>6, <2>2, <3>1, Zenon
  <2> QED BY <1>7, <2>1, <2>2, Zenon DEF Claim
<1>8. ASSUME NEW kind \in {"submit", "cancel", "down"}, NEW pc \in {"submitting", "idle", "dead"},
             caller' = [caller EXCEPT ![c].pc = pc], Send(c, kind), table' = table
      PROVE  Titles' /\ Balance'
  <2>1. \A d \in Client : caller'[d].n = caller[d].n /\
          (caller'[d].pc = "started" => caller[d].pc = "started")
    BY <1>1, <1>8 DEF CallerState
  <2>2. \E m : inbox' = [inbox EXCEPT ![c] = Append(@, m)] /\ (m.kind = "reserve" => m.key \in Key)
    <3> DEFINE m == [kind |-> kind, tok |-> TokenOf(c), key |-> caller[c].key,
                     op |-> caller[c].op, gen |-> caller[c].gen]
    <3>1. inbox' = [inbox EXCEPT ![c] = Append(@, m)] /\ m.kind # "reserve"
      BY <1>8 DEF Send
    <3> HIDE DEF m
    <3> QED BY <3>1, Zenon
  <2> QED BY <1>0, <1>3, <1>4, <1>8, <2>1, <2>2, ClaimsStay, Zenon
<1>9. CASE Submit(c) \/ Timeout(c) \/ Die(c)
  BY <1>8, <1>9 DEF Submit, Timeout, Die
<1> QED BY <1>5, <1>7, <1>9 DEF ClientStep

\* The guardian takes a message of a caller: a reservation is charged once.
LEMMA GuardianBudget ==
  ASSUME BudgetInv, NEW c \in Client, GuardianStep(c)
  PROVE  Titles' /\ Balance'
<1>0. Shape /\ Titles /\ Balance
  BY DEF BudgetInv
<1> DEFINE m == Head(inbox[c])
<1>1. /\ inbox[c] # << >> /\ inbox' = [inbox EXCEPT ![c] = Tail(@)]
      /\ UNCHANGED <<gen, operation, engine, log, appended>>
  BY Zenon DEF GuardianStep, ReserveMsg, SubmitMsg, CancelMsg, DownMsg, generation, engine_
<1>2. \A d \in Client : \A i \in DOMAIN inbox'[d] : inbox'[d][i].kind = "reserve" =>
        inbox'[d][i].key \in Key
  BY <1>0, <1>1, ReservesStay, Zenon
<1>3. m.kind = "reserve" => m.key \in Key
  <2>1. inbox[c] \in Seq(Mail)
    BY <1>0 DEF Shape
  <2>2. 1 \in DOMAIN inbox[c] /\ m = inbox[c][1]
    BY <1>1, <2>1
  <2> QED BY <1>0, <2>2 DEF Titles
<1>4. \A t \in Client \X Nat : Unclaimed(t)' => Unclaimed(t)
  <2>1. CASE caller' = caller
    BY <1>0, <2>1, ClaimsStay
  <2>2. CASE \/ Answer(m.tok, "reserving", "granted") \/ Answer(m.tok, "reserving", "idle")
             \/ Answer(m.tok, "submitting", "idle")
    BY <1>0, <2>2, AnswerClaims
  <2> QED BY <2>1, <2>2, Zenon DEF GuardianStep, ReserveMsg, SubmitMsg, CancelMsg, DownMsg, Refuse
<1> HIDE DEF m
<1>5. ASSUME NEW keys, ReleaseKeys(keys) PROVE Titles' /\ Balance'
  <2>1. table' = [k \in Key |-> IF k \in keys THEN Free ELSE table[k]]
    BY <1>5 DEF ReleaseKeys
  <2> QED BY <1>0, <1>1, <1>2, <1>4, <1>5, <2>1, FreeTitles, TitlesStay, BalanceReleases, Zenon
<1>6. CASE UNCHANGED <<table, memory>>
  <2>1. Balance'
    BY <1>0, <1>1, <1>6 DEF Balance, Charged, memory
  <2>2. /\ table' = [k \in Key |-> table'[k]]
        /\ \A k \in Key : table'[k].st = "free" \/
             (table[k].st # "free" /\ table'[k].tok = table[k].tok)
    BY <1>0, <1>6 DEF Titles
  <2> QED BY <1>0, <1>2, <1>4, <2>1, <2>2, TitlesStay
<1>7. DOMAIN table = Key
  BY <1>0 DEF Titles
<1>8. ASSUME NEW st \in {"reserved", "submitted"}, table' = [table EXCEPT ![m.key].st = st],
             table[m.key].st # "free"
      PROVE  /\ Titles'
             /\ \A k \in Key : table'[k].tok = table[k].tok /\
                  (table[k].st \in {"reserved", "submitted"} =>
                     table'[k].st \in {"reserved", "submitted"})
  <2>1. table' = [k \in Key |-> table'[k]]
    BY <1>7, <1>8, Zenon
  <2>2. ASSUME NEW k \in Key
        PROVE  /\ table'[k].tok = table[k].tok /\ (table'[k].st = "free" \/ table[k].st # "free")
               /\ table[k].st \in {"reserved", "submitted"} =>
                    table'[k].st \in {"reserved", "submitted"}
    <3>1. CASE k # m.key
      <4>1. table'[k] = table[k]
        BY <1>7, <1>8, <3>1
      <4> QED BY <4>1
    <3>2. CASE k = m.key
      <4>1. table'[k] = [table[k] EXCEPT !.st = st]
        BY <1>7, <1>8, <3>2
      <4>2. table'[k].tok = table[k].tok
        BY <4>1
      <4> QED BY <1>8, <3>2, <4>2
    <3> QED BY <3>1, <3>2
  <2>3. Titles'
    BY <1>0, <1>2, <1>4, <2>1, <2>2, TitlesStay
  <2> QED BY <2>2, <2>3
<1>9. ASSUME NEW expired \in BOOLEAN, ReserveMsg(c, expired) PROVE Titles' /\ Balance'
  <2>1. m.key \in Key
    BY <1>3, <1>9 DEF ReserveMsg, m
  <2>2. CASE UNCHANGED <<table, monitors, memory>>
    BY <1>6, <2>2
  <2>3. ASSUME Holds(m, "claimed"), table' = [table EXCEPT ![m.key] = Free], UNCHANGED memory
        PROVE  Titles' /\ Balance'
    <3>1. table' = [k \in Key |-> IF k \in {m.key} THEN Free ELSE table[k]]
      BY <1>7, <2>3, Zenon
    <3>2. table[m.key].st = "claimed"
      BY <2>3 DEF Holds
    <3>3. \A k \in Key : table[k].st \in {"reserved", "submitted"} => table'[k] = table[k]
      BY <3>1, <3>2
    <3>4. Charged \subseteq Charged'
      BY <3>3 DEF Charged
    <3>5. Balance'
      BY <1>0, <1>1, <2>3, <3>4 DEF Balance, memory
    <3> QED BY <1>0, <1>2, <1>4, <3>1, <3>5, FreeTitles, TitlesStay, Zenon
  <2>4. ASSUME Holds(m, "claimed"), table' = [table EXCEPT ![m.key].st = "reserved"],
               permits' = IF Bytes(m.op) = 1 THEN permits \cup {m.tok} ELSE permits,
               mem' = mem + Bytes(m.op)
        PROVE  Titles' /\ Balance'
    <3>1. table[m.key].st = "claimed" /\ table[m.key].tok = m.tok
      BY <2>4 DEF Holds
    <3>2. /\ Titles'
          /\ \A k \in Key : table'[k].tok = table[k].tok /\
               (table[k].st \in {"reserved", "submitted"} =>
                  table'[k].st \in {"reserved", "submitted"})
      BY <1>8, <2>4, <3>1
    <3>3. Charged \subseteq Charged'
      BY <3>2 DEF Charged
    <3>4. m.tok \notin Charged
      <4> SUFFICES ASSUME m.tok \in Charged PROVE FALSE
        OBVIOUS
      <4>1. PICK l \in Key : table[l].st \in {"reserved", "submitted"} /\ table[l].tok = m.tok
        BY DEF Charged
      <4>2. l = m.key
        BY <1>0, <2>1, <3>1, <4>1 DEF Titles
      <4> QED BY <3>1, <4>1, <4>2
    <3>5. m.tok \in Charged'
      <4>1. table'[m.key].st = "reserved" /\ table'[m.key].tok = m.tok
        BY <1>7, <2>1, <2>4, <3>1, <3>2
      <4> QED BY <2>1, <4>1 DEF Charged
    <3>6. IsFiniteSet(permits) /\ Cardinality(permits) \in Nat
      BY <1>0, FS_CardinalityType DEF Balance
    <3>7. CASE Bytes(m.op) = 1
      <4>1. permits' = permits \cup {m.tok} /\ mem' = mem + 1
        BY <2>4, <3>7
      <4>2. IsFiniteSet(permits')
        BY <3>6, <4>1, FS_AddElement
      <4>3. gen = 0 => Cardinality(permits') = Cardinality(permits) + 1
        BY <1>0, <3>4, <3>6, <4>1, FS_AddElement, Zenon DEF Balance
      <4>4. gen = 0 => permits' \subseteq Charged'
        BY <1>0, <3>3, <3>5, <4>1 DEF Balance
      <4>5. Len(log) \in Nat /\ Len(appended) \in Nat
        BY <1>0 DEF Shape
      <4>6. gen = 0 /\ engine.up => mem' = Cardinality(permits') + Len(log) + Len(appended)
        BY <1>0, <3>6, <4>1, <4>3, <4>5 DEF Balance
      <4> QED BY <1>0, <1>1, <3>2, <4>2, <4>4, <4>6 DEF Balance
    <3>8. CASE Bytes(m.op) # 1
      <4>1. permits' = permits /\ mem' = mem + 0
        BY <2>4, <3>8 DEF Bytes
      <4>2. Len(log) \in Nat /\ Len(appended) \in Nat
        BY <1>0 DEF Shape
      <4>3. gen = 0 /\ engine.up => mem' = Cardinality(permits') + Len(log) + Len(appended)
        BY <1>0, <3>6, <4>1, <4>2 DEF Balance
      <4> QED BY <1>0, <1>1, <3>2, <3>3, <4>1, <4>3 DEF Balance
    <3> QED BY <3>7, <3>8
  <2> QED BY <1>9, <2>2, <2>3, <2>4 DEF ReserveMsg, m
<1>10. CASE SubmitMsg(c)
  <2>1. CASE Holds(m, "reserved") /\ table' = [table EXCEPT ![m.key].st = "submitted"]
             /\ UNCHANGED memory
    <3>1. table[m.key].st = "reserved"
      BY <2>1 DEF Holds
    <3>2. /\ Titles'
          /\ \A k \in Key : table'[k].tok = table[k].tok /\
               (table[k].st \in {"reserved", "submitted"} =>
                  table'[k].st \in {"reserved", "submitted"})
      BY <1>8, <2>1, <3>1
    <3>3. Charged \subseteq Charged'
      BY <3>2 DEF Charged
    <3> QED BY <1>0, <1>1, <2>1, <3>2, <3>3 DEF Balance, memory
  <2> QED BY <1>5, <1>6, <1>10, <2>1 DEF SubmitMsg, m
<1>11. CASE CancelMsg(c) \/ DownMsg(c)
  BY <1>5, <1>6, <1>11 DEF CancelMsg, DownMsg
<1> QED BY <1>9, <1>10, <1>11 DEF GuardianStep

\* A completion gives back the permit of its command, with its charge.
LEMMA CompleteBudget ==
  ASSUME BudgetInv, CompletedMsg \/ \E x \in coordinator : CoordinatorDone(x)
  PROVE  Titles' /\ Balance'
<1>0. Shape /\ Titles /\ Balance
  BY DEF BudgetInv
<1>1. ASSUME NEW m, Complete(m), UNCHANGED <<inbox, gen, operation, engine, log, appended>>
      PROVE  Titles' /\ Balance'
  <2>1. CASE UNCHANGED <<table, memory, caller>>
    <3>1. Balance'
      BY <1>0, <1>1, <2>1 DEF Balance, Charged, memory
    <3>2. Titles'
      BY <1>0, <1>1, <2>1 DEF Titles, Unclaimed
    <3> QED BY <3>1, <3>2
  <2>2. CASE ReleaseKeys({m.key}) /\ Answer(m.tok, "submitting", "idle")
    <3>1. table' = [k \in Key |-> IF k \in {m.key} THEN Free ELSE table[k]]
      BY <2>2 DEF ReleaseKeys
    <3>2. \A t \in Client \X Nat : Unclaimed(t)' => Unclaimed(t)
      BY <1>0, <2>2, AnswerClaims
    <3>3. \A d \in Client : \A i \in DOMAIN inbox'[d] : inbox'[d][i].kind = "reserve" =>
            inbox'[d][i].key \in Key
      BY <1>0, <1>1 DEF Titles
    <3>4. Titles'
      BY <1>0, <3>1, <3>2, <3>3, FreeTitles, TitlesStay, Zenon
    <3>5. Balance'
      BY <1>0, <1>1, <2>2, BalanceReleases
    <3> QED BY <3>4, <3>5
  <2> QED BY <1>1, <2>1, <2>2 DEF Complete, Refuse
<1> QED BY <1>1, Zenon DEF CompletedMsg, CoordinatorDone, generation, engine_

\* Slots freed by the reaper are claimed ones, which are not charged; the end of
\* a generation leaves the first.
LEMMA ClearedBudget ==
  ASSUME BudgetInv,
         (\E expired \in SUBSET Claimed : Reap(expired)) \/ OperationStarting \/ EngineStarts
  PROVE  Titles' /\ Balance'
<1>0. Shape /\ Titles /\ Balance
  BY DEF BudgetInv
<1>1. UNCHANGED <<caller, inbox, permits, log, appended>>
  BY DEF Reap, OperationStarting, EngineStarts, memory, engine_
<1>2. \A t \in Client \X Nat : Unclaimed(t)' => Unclaimed(t)
  BY <1>0, <1>1, ClaimsStay
<1>3. \A d \in Client : \A i \in DOMAIN inbox'[d] : inbox'[d][i].kind = "reserve" =>
        inbox'[d][i].key \in Key
  BY <1>0, <1>1 DEF Titles
<1>4. ASSUME NEW keys, table' = [k \in Key |-> IF k \in keys THEN Free ELSE table[k]] PROVE Titles'
  BY <1>0, <1>2, <1>3, <1>4, FreeTitles, TitlesStay
<1>5. ASSUME NEW expired \in SUBSET Claimed, Reap(expired) PROVE Titles' /\ Balance'
  <2> DEFINE keys == expired \cup {k \in Key : table[k].st = "claimed"
                                    /\ caller[Owner(table[k].tok)].pc = "dead"}
  <2>1. \A k \in keys : table[k].st = "claimed"
    BY DEF Claimed
  <2>2. /\ table' = [k \in Key |-> IF k \in keys THEN Free ELSE table[k]]
        /\ UNCHANGED <<memory, gen, operation, engine>>
    BY <1>5, Zenon DEF Reap, generation, engine_
  <2> HIDE DEF keys
  <2>3. \A k \in Key : table[k].st \in {"reserved", "submitted"} => table'[k] = table[k]
    BY <2>1, <2>2
  <2>4. Charged \subseteq Charged'
    BY <2>3 DEF Charged
  <2>5. Balance'
    BY <1>0, <1>1, <2>2, <2>4 DEF Balance, memory
  <2> QED BY <1>4, <2>2, <2>5
<1>6. CASE OperationStarting
  <2> DEFINE keys == {k \in Key : k[2] = "client"}
  <2>1. table' = [k \in Key |-> IF k \in keys THEN Free ELSE table[k]]
    BY <1>6 DEF OperationStarting, ClearGeneration
  <2>2. gen' > 0
    BY <1>0, <1>6 DEF OperationStarting, Shape
  <2>3. Balance'
    BY <1>0, <1>1, <2>2 DEF Balance
  <2> QED BY <1>4, <2>1, <2>3, Zenon
<1>7. CASE EngineStarts
  <2>1. gen > 0 /\ gen' = gen /\ table' = table /\ operation' = "none"
    BY <1>0, <1>7 DEF EngineStarts, Balance
  <2>2. Balance'
    BY <1>0, <1>1, <2>1 DEF Balance
  <2>3. Titles'
    BY <1>0, <1>1, <2>1 DEF Titles, Unclaimed
  <2> QED BY <2>2, <2>3
<1> QED BY <1>5, <1>6, <1>7

\* The flush charges each job it writes; the sync moves the records to the log.
LEMMA EngineBudget ==
  ASSUME BudgetInv, FlushCommand \/ FlushFinish \/ EngineDies
  PROVE  Titles' /\ Balance'
<1>0. Shape /\ Titles /\ Balance
  BY DEF BudgetInv
<1>1. UNCHANGED <<table, caller, inbox, permits, gen, operation>>
  BY DEF FlushCommand, FlushFinish, EngineDies, memory, generation
<1>2. Titles' /\ Charged' = Charged
  <2>1. Titles'
    BY <1>0, <1>1 DEF Titles, Unclaimed
  <2>2. Charged' = Charged
    BY <1>1 DEF Charged
  <2> QED BY <2>1, <2>2
<1>3. /\ IsFiniteSet(permits) /\ Cardinality(permits) \in Nat
      /\ log \in Seq(AnyToken) /\ appended \in Seq(AnyToken)
      /\ Len(log) \in Nat /\ Len(appended) \in Nat
  BY <1>0, FS_CardinalityType DEF Balance, Shape
<1>4. ASSUME engine'.up => engine.up,
             gen = 0 /\ engine.up /\ engine'.up =>
               mem' - mem = (Len(log') + Len(appended')) - (Len(log) + Len(appended)) /\ mem' \in Int
               /\ Len(log') \in Nat /\ Len(appended') \in Nat
      PROVE  Balance'
  <2>1. ASSUME gen = 0, engine'.up PROVE mem' = Cardinality(permits) + Len(log') + Len(appended')
    <3>1. mem = Cardinality(permits) + Len(log) + Len(appended)
      BY <1>0, <1>4, <2>1 DEF Balance
    <3>2. /\ mem' - mem = (Len(log') + Len(appended')) - (Len(log) + Len(appended))
          /\ mem' \in Int /\ Len(log') \in Nat /\ Len(appended') \in Nat
      BY <1>4, <2>1
    <3> DEFINE p == Cardinality(permits)
               a == Len(log)
               b == Len(appended)
               s == Len(log')
               t == Len(appended')
               x == mem'
               y == mem
    <3>3. /\ p \in Nat /\ a \in Nat /\ b \in Nat /\ s \in Nat /\ t \in Nat /\ x \in Int
          /\ x - y = (s + t) - (a + b) /\ y = p + a + b
      BY <1>3, <3>1, <3>2, Zenon
    <3> HIDE DEF p, a, b, s, t, x, y
    <3>4. x = p + s + t
      BY <3>3
    <3> QED BY <3>4 DEF p, s, t, x
  <2> QED BY <1>0, <1>1, <1>2, <2>1 DEF Balance
<1>5. CASE FlushCommand
  <2>1. engine' = engine /\ log' = log
    BY <1>5 DEF FlushCommand
  <2>2. \/ mem' = mem + 1 /\ Len(appended') = Len(appended) + 1
        \/ mem' = mem /\ appended' = appended
    <3>1. \/ mem' = mem + 1 /\ appended' = Append(appended, batch[Len(results) + 1].tok)
          \/ mem' = mem /\ appended' = appended
      BY <1>5 DEF FlushCommand
    <3> QED BY <1>3, <3>1
  <2>3. gen = 0 /\ engine.up => mem \in Int
    BY <1>0, <1>3 DEF Balance
  <2> QED BY <1>2, <1>3, <1>4, <2>1, <2>2, <2>3
<1>6. CASE FlushFinish
  <2>1. engine' = engine /\ mem' = mem /\ appended' = << >> /\ log' = log \o appended
    BY <1>6 DEF FlushFinish, Synced, memory
  <2>2. Len(log') = Len(log) + Len(appended) /\ Len(appended') = 0
    BY <1>3, <2>1
  <2>3. gen = 0 /\ engine.up => mem \in Int
    BY <1>0, <1>3 DEF Balance
  <2> QED BY <1>2, <1>3, <1>4, <2>1, <2>2, <2>3
<1>7. CASE EngineDies
  <2>1. ~engine'.up
    BY <1>0, <1>7 DEF EngineDies, Shape, EngineState
  <2> QED BY <1>2, <1>4, <2>1
<1> QED BY <1>5, <1>6, <1>7

\* Every step keeps the books balanced.
LEMMA BudgetStep == BudgetInv /\ [Next]_vars => BudgetInv'
<1> SUFFICES ASSUME BudgetInv, [Next]_vars
             PROVE  Titles' /\ Balance'
  BY ShapeStep DEF BudgetInv
<1>0. Shape /\ Titles /\ Balance
  BY DEF BudgetInv
<1>1. ASSUME UNCHANGED <<table, caller, inbox, memory, gen, log, appended>>,
             operation' # "starting", engine'.up => engine.up
      PROVE  Titles' /\ Balance'
  <2>1. Titles'
    BY <1>0, <1>1 DEF Titles, Unclaimed
  <2>2. Balance'
    BY <1>0, <1>1, BalanceStays
  <2> QED BY <2>1, <2>2
<1>2. CASE UNCHANGED vars
  <2>1. Titles'
    BY <1>0, <1>2 DEF Titles, Unclaimed, vars
  <2>2. Balance'
    BY <1>0, <1>2 DEF Balance, Charged, vars, memory, generation, engine_
  <2> QED BY <2>1, <2>2
<1>3. CASE YieldedMsg \/ DrainedMsg \/ EngineTakes \/ FlushBegin \/ EngineExecutes
  <2>1. /\ UNCHANGED <<table, caller, inbox, memory, gen, log, appended>>
        /\ operation' = operation \/ operation' = "closing"
    BY <1>3 DEF YieldedMsg, DrainedMsg, EngineTakes, FlushBegin, EngineExecutes, generation, engine_
  <2>2. engine' = engine \/ engine' = [engine EXCEPT !.draining = TRUE]
    BY <1>3 DEF YieldedMsg, DrainedMsg, EngineTakes, FlushBegin, EngineExecutes, engine_
  <2>3. engine'.up = engine.up
    BY <1>0, <2>2 DEF Shape, EngineState
  <2>4. Charged' = Charged
    BY <2>1 DEF Charged
  <2>5. Balance'
    BY <1>0, <2>1, <2>3, <2>4 DEF Balance, memory
  <2>6. Titles'
    BY <1>0, <2>1 DEF Titles, Unclaimed
  <2> QED BY <2>5, <2>6
<1>4. CASE Revoke \/ Restart \/ ForcedRestart
  <2>1. /\ UNCHANGED <<table, caller, inbox, memory, gen, log, appended, engine>>
        /\ operation' # "starting"
    BY <1>4 DEF Revoke, Restart, ForcedRestart, engine_
  <2> QED BY <1>1, <2>1
<1>5. CASE CompletedMsg \/ \E x \in coordinator : CoordinatorDone(x)
  BY <1>5, CompleteBudget
<1>6. CASE (\E expired \in SUBSET Claimed : Reap(expired)) \/ OperationStarting \/ EngineStarts
  BY <1>6, ClearedBudget
<1>7. CASE FlushCommand \/ FlushFinish \/ EngineDies
  BY <1>7, EngineBudget
<1> QED BY <1>2, <1>3, <1>4, <1>5, <1>6, <1>7, ClientBudget, GuardianBudget DEF Next

\* In the first generation the byte counter is the payloads of the permits that
\* are held and the jobs that are written, whatever is claimed, cancelled, lost
\* or refused: reserve, release and transaction balance.
THEOREM BudgetIsExact == Spec => []BudgetExact
<1>1. BudgetInv => BudgetExact
  <2>1. Charged \subseteq {table[k].tok : k \in Key}
    BY DEF Charged
  <2> QED BY <2>1 DEF BudgetInv, Balance, BudgetExact
<1> QED BY <1>1, BudgetInit, BudgetStep, PTL DEF Spec
=============================================================================
