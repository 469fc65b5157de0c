---------------------------- MODULE FormalHarness ----------------------------
(***************************************************************************)
(* From the properties a contract declares to the checker that Gate 2      *)
(* proves (core/formal_templates.py, VerificationHarnessGenerator): which  *)
(* properties are classified, refused or dropped as tautologies, with      *)
(* which reset guard each is rendered, and the cover point that is to show *)
(* it was exercised.  The checker then runs beside the property it was     *)
(* made from, over every sequence of sampled values.                       *)
(*                                                                         *)
(* A clause is a declared property over a one-bit a, a two-bit b and the   *)
(* reset: left and right are conjunctions of literals, and form says how   *)
(* they are put together.  The fixes of MIND3_GATE_FIXES are on, which is  *)
(* the default.                                                            *)
(***************************************************************************)
EXTENDS Naturals, FiniteSets, Sequences

CONSTANTS
    Clauses,     \* properties a contract may declare
    ResetPorts,  \* reset ports a contract may have
    NoReset,     \* the contract has no reset port; a property has no reset
    MaxClauses   \* bound on the properties of a contract

Signals == {"rst", "a", "b", "b == a"}

Literal == [sig : Signals, neg : BOOLEAN]

ASSUME HarnessAssumption ==
    /\ \A c \in Clauses :
          /\ c.form \in {"or", "eq", "same", "next", "past", "stable", "delayed"}
          /\ c.left \in Seq(Literal) /\ c.right \in Seq(Literal)
          /\ c.form = "eq" => c.left # <<>> /\ c.right # <<>>
          /\ c.disable \in {"none", "reset", "compound"}
          /\ c.hint \in BOOLEAN
    /\ \A p \in ResetPorts :
          /\ p.low \in BOOLEAN /\ p.says \in BOOLEAN /\ p.listed \in BOOLEAN
          /\ p.name \in {"ends in _n", "contains _n", "contains resetn", "other"}
          /\ p.inside \subseteq Signals
    /\ NoReset \notin ResetPorts \cup [low : BOOLEAN]
    /\ MaxClauses \in Nat

VARIABLES
    contract,  \* the declared properties, the clock, the reset
    harness,   \* what became of the properties
    sample,    \* the values at the last clock edge
    before,    \* the values at the edge before
    first      \* the checker's init register: TRUE at the first edge

harnessVars == <<contract, harness, sample, before, first>>

Sample == [rst : 0..1, a : 0..1, b : 0..2]

Low(asserted) == [low |-> asserted]

-----------------------------------------------------------------------------
(***************************************************************************)
(* What a clause means in SystemVerilog, where ! and == bind tighter than  *)
(* && and || and a value is true when it is not zero.                      *)
(***************************************************************************)
Bit(condition) == IF condition THEN 1 ELSE 0

Number(l, s) ==
    IF l.sig = "b == a"
    THEN Bit(IF l.neg THEN Bit(s.b = 0) = s.a ELSE s.b = s.a)
    ELSE IF l.neg THEN Bit(s[l.sig] = 0) ELSE s[l.sig]

Holds(ls, s) == \A i \in DOMAIN ls : Number(ls[i], s) # 0

Front(ls) == SubSeq(ls, 1, Len(ls) - 1)
Final(ls) == ls[Len(ls)]

\* l1 && ... && ln == r1 && ... && rm compares ln with r1.
Expression(c, s) ==
    IF c.form = "eq"
    THEN /\ Holds(Front(c.left), s)
         /\ Number(Final(c.left), s) = Number(Head(c.right), s)
         /\ Holds(Tail(c.right), s)
    ELSE Holds(c.left, s) \/ Holds(c.right, s)

\* The property at one edge, without a clause that disables it.
SourceHolds(c, s, prior) ==
    CASE c.form \in {"or", "eq"} -> Expression(c, s)
      [] c.form = "same" -> Holds(c.left, s) => Holds(c.right, s)
      [] c.form = "next" -> Holds(c.left, prior) => Holds(c.right, s)
      [] c.form = "past" -> Holds(c.left, s) => Holds(c.right, prior)
      [] c.form = "stable" -> s.b = prior.b
      [] c.form = "delayed" -> TRUE

LooksBack(c) == c.form \in {"next", "past", "stable"}

ResetActive(d, s) == s.rst = Bit(~d.low)

-----------------------------------------------------------------------------
(***************************************************************************)
(* Tautologies.  The structural test compares text: an expression whose    *)
(* two sides of == are the same text, or whose two sides of || are the     *)
(* same text but for a leading !.  The table is built from the parsed      *)
(* expression, in which ! applies to a whole comparison.                   *)
(***************************************************************************)
\* A mutant: any two alternatives that begin with opposite literals.
NegationHeads(ls, rs) ==
    /\ ls # <<>> /\ rs # <<>>
    /\ Head(ls).neg /\ [Head(ls) EXCEPT !.neg = FALSE] = Head(rs)

Negation(ls, rs) ==
    /\ ls # <<>> /\ rs # <<>>
    /\ Head(ls).neg /\ [Head(ls) EXCEPT !.neg = FALSE] = Head(rs)
    /\ Tail(ls) = Tail(rs)

Structural(c) ==
    \/ c.form \in {"eq", "same"} /\ c.left = c.right
    \/ c.form = "or" /\ (Negation(c.left, c.right) \/ Negation(c.right, c.left))

AtomsHold(ls, env) == \A i \in DOMAIN ls : env[ls[i].sig] # ls[i].neg

TableHolds(c, env) ==
    CASE c.form = "or" -> AtomsHold(c.left, env) \/ AtomsHold(c.right, env)
      [] c.form = "same" -> AtomsHold(c.left, env) => AtomsHold(c.right, env)
      [] OTHER -> FALSE

TableTautology(c) == \A env \in [Signals -> BOOLEAN] : TableHolds(c, env)

TextTautology(c) == Structural(c) \/ TableTautology(c)

\* It cannot fail, whatever the design does.
Irrefutable(c) == \A s, prior \in Sample : SourceHolds(c, s, prior)

-----------------------------------------------------------------------------
(***************************************************************************)
(* The contract: its default reset, and whether it is consistent.          *)
(***************************************************************************)

\* What a record's port list makes of a reset port: one of six names, active
\* low if the name ends in _n or if the assumptions say so.
RecordReset(p) ==
    IF p.listed THEN Low(p.name = "ends in _n" \/ p.says) ELSE NoReset

\* What the harness generator makes of it: any input with rst or reset in its
\* name, active low by other rules, which do not look at the contract's reset.
HarnessReset(p) == Low(p.name # "other")

\* The reset given to a property that names none.
DefaultReset(k) ==
    IF ~k.clocked \/ k.port = NoReset THEN NoReset
    ELSE IF k.origin = "record" THEN RecordReset(k.port)
    ELSE HarnessReset(k.port)

Descriptor(c, k) ==
    IF c.disable = "reset" /\ k.port # NoReset THEN Low(k.port.low)
    ELSE DefaultReset(k)

\* disable iff on one signal is read; any other condition is stripped.
DisableIff(c) == c.disable = "reset"

Unsupported(c) == c.form = "delayed" /\ ~TextTautology(c)

Mentioned(c) == {c.left[i].sig : i \in DOMAIN c.left}
                \cup {c.right[i].sig : i \in DOMAIN c.right}

BareReset(ls) == ls = <<[sig |-> "rst", neg |-> FALSE]>>

\* A classified clause that looks back needs a clock; building it without one
\* raises, and the record has no contract.
Unclocked(c, k) == ~k.clocked /\ LooksBack(c) /\ ~c.hint

Inconsistent(k) ==
    \/ ~k.clocked /\ (k.origin = "legacy" \/ \E c \in k.clauses : c.hint \/ Unsupported(c))
    \/ /\ k.port = NoReset
       /\ \/ k.origin = "legacy"
          \/ \E c \in k.clauses :
                \/ Unsupported(c) \/ DisableIff(c)
                \/ c.form \in {"or", "eq", "past"} /\ "rst" \in Mentioned(c)
                \/ BareReset(c.left)
                \/ BareReset(c.right) /\ c.form # "stable"

\* compile_contract_properties, after the contract has been looked at.
Build(k) ==
    LET dropped == {c \in k.clauses : TextTautology(c)}
        kept == k.clauses \ dropped
    IN  IF Inconsistent(k) \/ \E c \in k.clauses : Unclocked(c, k)
        THEN [status |-> "SPECIFICATION_ERROR", checked |-> {}, dropped |-> {}]
        ELSE IF \E c \in kept : Unsupported(c)
        THEN [status |-> "UNSUPPORTED_FORMAL_PROPERTY", checked |-> {}, dropped |-> {}]
        ELSE IF k.clauses # {} /\ kept = {}
        THEN [status |-> "NO_GENUINE_PROPERTY", checked |-> {}, dropped |-> dropped]
        ELSE [status |-> "built", checked |-> kept, dropped |-> dropped]

-----------------------------------------------------------------------------
(***************************************************************************)
(* Rendering: the guard, the assertion and the cover point.                *)
(***************************************************************************)

\* The reset's name occurs in the text of the property, which is also so when
\* another signal's name contains it.
ReferencesReset(c, k) ==
    /\ k.port # NoReset
    /\ Mentioned(c) \cap ({"rst"} \cup k.port.inside) # {}

\* A mutant: every reset is taken to be active low.
GuardLow(c, k, s, init) ==
    LET inactive == Descriptor(c, k) # NoReset => s.rst = 1
    IN  \/ ~k.clocked
        \/ /\ ~init
           /\ (DisableIff(c) \/ ~ReferencesReset(c, k)) => inactive

Guard(c, k, s, init) ==
    LET d == Descriptor(c, k)
        inactive == d # NoReset => ~ResetActive(d, s)
    IN  \/ ~k.clocked
        \/ /\ ~init
           /\ (DisableIff(c) \/ ~ReferencesReset(c, k)) => inactive

ResetAsserted(c, k) ==
    LET d == Descriptor(c, k)
    IN  /\ c.form \in {"same", "next"}
        /\ d # NoReset
        /\ c.left = <<[sig |-> "rst", neg |-> d.low]>>

\* A mutant: the edge after a reset is not left out.
RenderGuardNow(c, k, s, prior, init) ==
    IF ResetAsserted(c, k) THEN ~init ELSE Guard(c, k, s, init)

RenderGuard(c, k, s, prior, init) ==
    LET d == Descriptor(c, k)
    IN  IF ResetAsserted(c, k) THEN ~init
        ELSE /\ Guard(c, k, s, init)
             /\ LooksBack(c) /\ d # NoReset => ~ResetActive(d, prior)

\* The antecedent is moved to the edge before for a synchronous reset.
MovedBack(c, k) == c.form = "same" /\ ResetAsserted(c, k) /\ k.sync

\* The assertion of a clause holds at this edge.
CheckHolds(c, k, s, prior, init) ==
    LET g == RenderGuard(c, k, s, prior, init)
    IN  CASE MovedBack(c, k) -> g /\ Holds(c.left, prior) => Holds(c.right, s)
          [] c.form = "same" /\ ~MovedBack(c, k) -> g /\ Holds(c.left, s) => Holds(c.right, s)
          [] c.form = "next" -> g /\ Holds(c.left, prior) => Holds(c.right, s)
          [] c.form = "past" -> g => (Holds(c.left, s) => Holds(c.right, prior))
          [] c.form = "stable" -> g => s.b = prior.b
          [] OTHER -> g => Expression(c, s)

\* The properties Gate 2 asks a cover point of: the implications.
HasCover(c) == c.form \in {"same", "next"}

\* A mutant: the cover point of a property about the reset is not rewritten.
CoverFiresUnmoved(c, k, s, prior, init) ==
    /\ HasCover(c)
    /\ RenderGuard(c, k, s, prior, init)
    /\ Holds(c.left, IF c.form = "next" THEN prior ELSE s)

CoverFires(c, k, s, prior, init) ==
    /\ HasCover(c)
    /\ RenderGuard(c, k, s, prior, init)
    /\ Holds(c.left, IF c.form = "next" \/ MovedBack(c, k) THEN prior ELSE s)

-----------------------------------------------------------------------------
Rest == [rst |-> 0, a |-> 0, b |-> 0]

NotBuilt == [status |-> "none", checked |-> {}, dropped |-> {}]

HarnessInit ==
    /\ contract = [clauses |-> {}, port |-> NoReset, clocked |-> TRUE,
                   sync |-> TRUE, origin |-> "record"]
    /\ harness = NotBuilt
    /\ sample = Rest /\ before = Rest
    /\ first = TRUE

\* A record, or the architect's answer, is turned into a contract.
Declare(c) ==
    /\ harness = NotBuilt
    /\ Cardinality(contract.clauses) < MaxClauses
    /\ contract' = [contract EXCEPT !.clauses = @ \cup {c}]
    /\ UNCHANGED <<harness, sample, before, first>>

\* The interface is fixed and the checker module is built.  The assertions of
\* a checker do not depend on each other: one at a time is followed.
BuildHarness(port, clocked, sync, origin) ==
    /\ harness = NotBuilt
    /\ contract' = [clauses |-> contract.clauses, port |-> port,
                    clocked |-> clocked, sync |-> sync, origin |-> origin]
    /\ harness' = Build(contract')
    /\ \E s \in IF Cardinality(contract.clauses) = 1 THEN Sample ELSE {Rest} :
          sample' = s /\ before' = s
    /\ UNCHANGED first

\* The next clock edge (for a checker without a clock, the next change).
ClockEdge(s) ==
    /\ harness.status = "built"
    /\ Cardinality(contract.clauses) = 1
    /\ before' = sample
    /\ sample' = s
    /\ first' = FALSE
    /\ UNCHANGED <<contract, harness>>

HarnessNext ==
    \/ \E c \in Clauses : Declare(c)
    \/ \E port \in ResetPorts \cup {NoReset}, clocked, sync \in BOOLEAN,
          origin \in {"record", "legacy"} :
             BuildHarness(port, clocked, sync, origin)
    \/ \E s \in Sample : ClockEdge(s)

HarnessSpec == HarnessInit /\ [][HarnessNext]_harnessVars

-----------------------------------------------------------------------------
(***************************************************************************)
(* Properties.                                                             *)
(***************************************************************************)

\* The reset of a property is asserted at the level the design uses.
RightPolarity(c, k) ==
    LET d == Descriptor(c, k) IN d # NoReset => d.low = k.port.low

Disabled(c, k, s) ==
    /\ c.disable # "none"
    /\ \/ k.port # NoReset /\ ResetActive(Low(k.port.low), s)
       \/ c.disable = "compound" /\ s.a = 1

\* The property itself fails at this edge.
SourceFails(c, k) ==
    /\ LooksBack(c) => ~first
    /\ ~Disabled(c, k, sample)
    /\ c.form = "next" => ~Disabled(c, k, before)
    /\ ~SourceHolds(c, sample, before)

\* Nothing that a contract declares is lost on the way: once the checker is
\* built, a property is in it or can be left out because no design can break
\* it.  The structural test takes more than that for a tautology: an
\* alternative of several literals of which only the first is negated
\* ("a && b || !a && b"), or "a && b == a && b", which compares b with a; and
\* the table reads "!b == a" as "!(b == a)", which is not the same of a b of
\* two bits.
NothingGenuineDropped ==
    harness.status = "built" =>
        \A c \in contract.clauses \ harness.checked :
            \/ Irrefutable(c)
            \/ Len(c.left) > 1 \/ "b == a" \in Mentioned(c)

\* The checker never reports a failure that the property would not: a
\* counterexample sent to the repair loop is one.  Excepted are a reset
\* property moved to the edge after the reset, and what becomes of disable
\* iff: a condition that is not one signal is stripped, without a clock none
\* is kept, and a property whose antecedent is the reset is checked in the
\* very state that disables it.
FailureIsGenuine ==
    \A c \in harness.checked :
        /\ ~CheckHolds(c, contract, sample, before, first)
        /\ ~MovedBack(c, contract) /\ c.disable # "compound"
        /\ DisableIff(c) => contract.clocked /\ ~ResetAsserted(c, contract)
        => SourceFails(c, contract)

\* A failure of the property is found, in operation: past the first edge and
\* with the design's reset inactive at both edges.  It needs the right
\* polarity: the port list of a record makes resetn and aresetn active high
\* unless its assumptions say otherwise, and a property with that default is
\* then checked in reset only.
OperationIsChecked ==
    \A c \in harness.checked :
        /\ SourceFails(c, contract) /\ ~first
        /\ contract.port # NoReset =>
              \A s \in {sample, before} :
                  ~ResetActive(Low(contract.port.low), s)
        /\ RightPolarity(c, contract)
        => ~CheckHolds(c, contract, sample, before, first)

\* The cover point is reached exactly when the assertion is tried: reached, it
\* leaves the assertion to its consequent alone, and not reached, the
\* assertion holds whatever the design does.
CoverIsTrial ==
    \A c \in harness.checked : HasCover(c) =>
        CheckHolds(c, contract, sample, before, first)
            = (CoverFires(c, contract, sample, before, first) => Holds(c.right, sample))
=============================================================================
