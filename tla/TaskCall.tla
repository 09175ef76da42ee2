------------------------------ MODULE TaskCall ------------------------------
(***************************************************************************)
(* How a call of a decorated Python function is turned into a JSON object  *)
(* by the producer and back into a call by the worker                      *)
(* (clients/python/tay/task.py).                                           *)
(*                                                                         *)
(* A signature is the sequence of a function's parameters, in Python's     *)
(* order of kinds; "default" is the value of the parameter when the call   *)
(* leaves it out, NoDefault when it must be given.  Values are those of     *)
(* JobOptions; "object" is every value outside the JSON vocabulary.        *)
(***************************************************************************)
EXTENDS JobOptions, Sequences, SequencesExt

NoDefault == [type |-> "none", num |-> 0, text |-> "bad"]

Parameters(sig) == ToSet(sig)
Names(sig) == {p.name : p \in Parameters(sig)}
Has(sig, kind) == \E p \in Parameters(sig) : p.kind = kind

(* The parameters a positional argument can reach, in order.               *)
Positional(sig) ==
  SelectSeq(sig, LAMBDA p : p.kind \in {"POSITIONAL_ONLY", "POSITIONAL_OR_KEYWORD"})

(* The names a keyword argument can reach.                                 *)
Keywords(sig) ==
  {p.name : p \in {q \in Parameters(sig) : q.kind \in {"POSITIONAL_OR_KEYWORD", "KEYWORD_ONLY"}}}

(* inspect.Signature.bind, which is also the rule by which Python calls a  *)
(* function: which calls are well formed.                                  *)
Binds(sig, args, kw) ==
  LET places == Positional(sig) IN
  /\ Len(args) <= Len(places) \/ Has(sig, "VAR_POSITIONAL")
  /\ DOMAIN kw \subseteq Keywords(sig) \/ Has(sig, "VAR_KEYWORD")
  /\ \A i \in 1..Len(places) :
       LET named == places[i].name \in DOMAIN kw \cap Keywords(sig) IN
       IF i <= Len(args) THEN ~named ELSE named \/ places[i].default # NoDefault
  /\ \A p \in Parameters(sig) :
       p.kind = "KEYWORD_ONLY" => p.name \in DOMAIN kw \/ p.default # NoDefault

(* bind and apply_defaults: the value of every parameter.                  *)
Bound(sig, args, kw) ==
  LET places == Positional(sig)
      Value1(p) ==
        IF \E i \in 1..Len(places) : places[i] = p /\ i <= Len(args)
          THEN args[CHOOSE i \in 1..Len(places) : places[i] = p]
        ELSE IF p.name \in DOMAIN kw \cap Keywords(sig) THEN kw[p.name] ELSE p.default
  IN [name \in Names(sig) |->
        LET p == CHOOSE q \in Parameters(sig) : q.name = name IN
        CASE p.kind = "VAR_POSITIONAL" -> SubSeq(args, Len(places) + 1, Len(args))
          [] p.kind = "VAR_KEYWORD" -> [k \in DOMAIN kw \ Keywords(sig) |-> kw[k]]
          [] OTHER -> Value1(p)]

-----------------------------------------------------------------------------
(* normalize_json over the bound arguments, as far as it can refuse them:  *)
(* a value outside the JSON vocabulary, at the top or in a collection.     *)
Portable(v) == v.type \notin {"object", "inf"}

JsonSafe(sig, bound) ==
  \A p \in Parameters(sig) :
    IF p.kind \in {"VAR_POSITIONAL", "VAR_KEYWORD"}
      THEN \A k \in DOMAIN bound[p.name] : Portable(bound[p.name][k])
      ELSE Portable(bound[p.name])

(* _arguments_from_call: the argument object is the binding itself, with   *)
(* the varargs tuple written as a list.                                    *)
ArgumentsOk(sig, args, kw) == Binds(sig, args, kw) /\ JsonSafe(sig, Bound(sig, args, kw))
arguments_from_call(sig, args, kw) == Bound(sig, args, kw)

(* _split_enqueue_kwargs: a keyword that names an option and no parameter  *)
(* is an option.                                                           *)
OptionKeywords(sig, kw) == (DOMAIN kw \cap ENQUEUE_OPTION_NAMES) \ Names(sig)
TaskKeywords(sig, kw) == [k \in DOMAIN kw \ OptionKeywords(sig, kw) |-> kw[k]]

(* Positional-only parameters forgotten.                                   *)
PositionalOfVarargs(sig, arguments) ==
  FoldLeft(LAMBDA acc, p : IF p.kind = "VAR_POSITIONAL" THEN acc \o arguments[p.name] ELSE acc,
           <<>>, SelectSeq(sig, LAMBDA p : p.name \in DOMAIN arguments))

(* _call_from_arguments: positional-only parameters and varargs by place,  *)
(* every other parameter by name.                                          *)
PositionalOf(sig, arguments) ==
  FoldLeft(LAMBDA acc, p :
             CASE p.kind = "POSITIONAL_ONLY" -> Append(acc, arguments[p.name])
               [] p.kind = "VAR_POSITIONAL" -> acc \o arguments[p.name]
               [] OTHER -> acc,
           <<>>, SelectSeq(sig, LAMBDA p : p.name \in DOMAIN arguments))

KeywordsOf(sig, arguments) ==
  LET extra == {p \in Parameters(sig) : p.kind = "VAR_KEYWORD" /\ p.name \in DOMAIN arguments}
      more == UNION {DOMAIN arguments[p.name] : p \in extra}
  IN [k \in (Keywords(sig) \cap DOMAIN arguments) \cup more |->
        IF k \in more THEN arguments[(CHOOSE p \in extra : TRUE).name][k] ELSE arguments[k]]

=============================================================================
