------------------------ MODULE CandidateTextProofs ------------------------
(***************************************************************************)
(* The candidate's text before a tool runs: StructuralChecks and           *)
(* ResponseParser for any contracts, designs and answers.                  *)
(***************************************************************************)
EXTENDS StructuralChecks, ResponseParser, SequenceTheorems, WellFoundedInduction, TLAPS

(***************************************************************************)
(* The structural checks.                                                  *)
(***************************************************************************)

\* Which check a look and the violations are of.
ChecksInv ==
    /\ contract \in Contracts /\ candidate \in Designs /\ repaired \in BOOLEAN
    /\ look \in {"REPAIR_SENSITIVITY_MISMATCH", "REPAIR_MULTIDRIVEN", "verified"} =>
          look = Precheck(candidate, contract)
    /\ look = "judged" =>
          /\ violations = Validate(candidate, contract)
          /\ repaired => Precheck(candidate, contract) = "verified"

LEMMA ChecksInvariant == ChecksSpec => []ChecksInv
<1>1. ChecksInit => ChecksInv
  BY DEF ChecksInit, ChecksInv
<1>2. ChecksInv /\ [ChecksNext]_checksVars => ChecksInv'
  <2> SUFFICES ASSUME ChecksInv, [ChecksNext]_checksVars PROVE ChecksInv'
    OBVIOUS
  <2>1. CASE LookBefore
    <3>1. Precheck(candidate, contract) # "judged"
      BY DEF Precheck
    <3> QED
      BY <2>1, <3>1 DEF LookBefore, ChecksInv
  <2>2. CASE Gate1
    BY <2>2 DEF Gate1, ChecksInv
  <2>3. CASE UNCHANGED checksVars
    BY <2>3 DEF checksVars, ChecksInv
  <2> QED
    BY <2>1, <2>2, <2>3 DEF ChecksNext
<1> QED
  BY <1>1, <1>2, PTL DEF ChecksSpec

\* Of a readable text, without comments, the two searches for the reset read
\* the same.
LEMMA ReadableLists ==
    ASSUME NEW d, NEW k, Readable(d, k)
    PROVE  /\ LiveHeaders(d) = Headers(d)
           /\ k.clock # NoClock => \A h \in Headers(d) : FindsReset(h, k) <=> ListsReset(h, k)
<1>1. LiveHeaders(d) = Headers(d)
  BY DEF LiveHeaders, Headers, Readable
<1>2. ASSUME NEW h \in Headers(d), k.clock # NoClock
      PROVE  FindsReset(h, k) <=> ListsReset(h, k)
  <2>1. /\ h.reset # "remark"
        /\ h.reset \in {"or", "longer"} =>
              h.right /\ ~h.wrapped /\ <<k.clock, h.clk>> \notin Longer
    BY DEF Readable
  <2> QED
    BY <1>2, <2>1 DEF FindsReset, ListsReset, ClockName
<1> QED
  BY <1>1, <1>2

LEMMA MismatchIsHeld ==
    ASSUME NEW k \in Contracts, NEW d \in Designs, "rst" \in DOMAIN k.ports,
           Readable(d, k)
    PROVE  SensitivityMismatch(d, k) <=> ResetViolations(d, k) # {}
<1>1. k.reset \in {"none", "sync", "async"}
  BY ChecksAssumption
<1> DEFINE listed == \E h \in Headers(d) : ListsReset(h, k)
           found == \E h \in Headers(d) : FindsReset(h, k)
<1>2. SensitivityMismatch(d, k) <=> \/ k.reset = "sync" /\ listed
                                    \/ k.reset = "async" /\ k.clock # NoClock /\ ~listed
  BY ReadableLists DEF SensitivityMismatch
<1>3. k.clock # NoClock => (found <=> listed)
  BY ReadableLists
<1> HIDE DEF listed, found
<1>4. CASE k.reset = "none"
  BY <1>4, <1>2 DEF ResetViolations
<1>5. CASE k.reset = "sync"
  <2>1. ResetViolations(d, k) # {} <=> listed
    BY <1>5 DEF ResetViolations, listed
  <2> QED
    BY <1>5, <1>2, <2>1
<1>6. CASE k.reset = "async"
  <2>1. ResetViolations(d, k) # {} <=> k.clock # NoClock /\ ~found
    BY <1>6 DEF ResetViolations, found
  <2> QED
    BY <1>6, <1>2, <1>3, <2>1
<1> QED
  BY <1>1, <1>4, <1>5, <1>6

\* A design that has the required header and no other.
LEMMA RequiredHeaderPasses ==
    ASSUME NEW k \in Contracts, NEW d \in Designs, "rst" \in DOMAIN k.ports,
           d.blocks # <<>>, Headers(d) = {RequiredHeader(k)},
           \A b \in Blocks(d) : ~b.comment
    PROVE  ~SensitivityMismatch(d, k) /\ ResetViolations(d, k) = {}
<1> DEFINE h == RequiredHeader(k)
<1>1. k.reset \in {"none", "sync", "async"}
  BY ChecksAssumption
<1>2. LiveHeaders(d) = Headers(d)
  BY DEF LiveHeaders, Headers
<1>3. h \in Headers(d) /\ h \in LiveHeaders(d)
  BY <1>2
<1>4. /\ h.clk = ClockName(k) /\ h.right /\ ~h.wrapped
      /\ h.reset = IF k.reset = "async" THEN "or" ELSE "none"
  BY DEF RequiredHeader
<1>5. ListsReset(h, k) <=> k.reset = "async"
  BY <1>4 DEF ListsReset
<1>6. k.clock # NoClock /\ k.reset = "async" => FindsReset(h, k)
  BY <1>4 DEF FindsReset, ClockName
<1> HIDE DEF h
<1>7. ~SensitivityMismatch(d, k)
  BY <1>1, <1>2, <1>3, <1>5 DEF SensitivityMismatch, h
<1>8. ResetViolations(d, k) = {}
  BY <1>1, <1>3, <1>5, <1>6 DEF ResetViolations, h
<1> QED
  BY <1>7, <1>8

\* The check before the verification never disagrees with Gate 1
\* (sensitivity_mismatch, validate_rtl_against_contract).
THEOREM PrecheckMirrors == ChecksSpec => []PrecheckMirrorsGate
<1>1. ChecksInv => PrecheckMirrorsGate
  BY MismatchIsHeld, RequiredHeaderPasses DEF ChecksInv, PrecheckMirrorsGate
<1> QED
  BY <1>1, ChecksInvariant, PTL
\* What Gate 1 lets through (validate_rtl_against_contract).
LEMMA SamePorts ==
    ASSUME NEW k \in Contracts, NEW d \in Designs, InterfaceViolations(d, k) = {}
    PROVE  d.named /\ d.ports = k.ports /\ d.params = k.params
<1> DEFINE both == DOMAIN k.ports \cap DOMAIN d.ports
<1>1. /\ IF d.named THEN {} = {} ELSE FALSE
      /\ {<<"missing", p>> : p \in DOMAIN k.ports \ DOMAIN d.ports} = {}
      /\ {<<"direction", p>> : p \in {q \in both : k.ports[q].input # d.ports[q].input}} = {}
      /\ {<<"width", p>> : p \in {q \in both : k.ports[q].width # d.ports[q].width}} = {}
      /\ {<<"unexpected", p>> : p \in DOMAIN d.ports \ DOMAIN k.ports} = {}
      /\ {<<"missing parameter", p>> : p \in k.params \ d.params} = {}
      /\ {<<"unexpected parameter", p>> : p \in d.params \ k.params} = {}
  BY DEF InterfaceViolations
<1>2. DOMAIN k.ports = DOMAIN d.ports
  BY <1>1
<1>3. \A p \in DOMAIN k.ports :
         k.ports[p].input = d.ports[p].input /\ k.ports[p].width = d.ports[p].width
  BY <1>1, <1>2
<1>4. /\ k.ports \in [DOMAIN k.ports -> PortOf]
      /\ d.ports \in [DOMAIN k.ports -> PortOf]
  BY <1>2, ChecksAssumption
<1>5. \A p \in DOMAIN k.ports : k.ports[p] = d.ports[p]
  <2> SUFFICES ASSUME NEW p \in DOMAIN k.ports PROVE k.ports[p] = d.ports[p]
    OBVIOUS
  <2>1. k.ports[p] \in PortOf /\ d.ports[p] \in PortOf
    BY <1>4
  <2> QED
    BY <1>3, <2>1 DEF PortOf
<1>6. d.ports = k.ports
  BY <1>4, <1>5
<1>7. d.params = k.params
  BY <1>1
<1> QED
  BY <1>1, <1>6, <1>7

LEMMA CleanClock ==
    ASSUME NEW k, NEW d, ClockViolations(d, k) = {}, k.clock # NoClock, k.sequential
    PROVE  \E h \in Headers(d) : h.clk = k.clock /\ h.right
  BY DEF ClockViolations

LEMMA CleanReset ==
    ASSUME NEW k, NEW d, ResetViolations(d, k) = {}, Readable(d, k)
    PROVE  /\ k.clock # NoClock /\ k.reset = "async" =>
                 \E h \in Headers(d) : ListsReset(h, k)
           /\ k.reset = "sync" => \A h \in Headers(d) : ~ListsReset(h, k)
<1>1. k.reset # "none" => "rst" \in DOMAIN k.ports
  BY DEF ResetViolations
<1>2. ASSUME k.clock # NoClock, k.reset = "async"
      PROVE  \E h \in Headers(d) : ListsReset(h, k)
  <2>1. \E h \in Headers(d) : FindsReset(h, k)
    BY <1>1, <1>2 DEF ResetViolations
  <2> QED
    BY <1>2, <2>1, ReadableLists
<1>3. ASSUME k.reset = "sync" PROVE \A h \in Headers(d) : ~ListsReset(h, k)
  BY <1>1, <1>3 DEF ResetViolations
<1> QED
  BY <1>2, <1>3

\* A clean design is one for its contract.
THEOREM CleanDesignsCompatible == ChecksSpec => []CleanIsCompatible
<1>1. ChecksInv => CleanIsCompatible
  <2> DEFINE k == contract
             d == candidate
  <2> SUFFICES ASSUME ChecksInv, look = "judged", violations = {}
               PROVE  CleanIsCompatible
    BY DEF CleanIsCompatible
  <2>1. k \in Contracts /\ d \in Designs /\ Validate(d, k) = {}
    BY DEF ChecksInv
  <2>2. /\ InterfaceViolations(d, k) = {} /\ ClockViolations(d, k) = {}
        /\ ResetViolations(d, k) = {}
    BY <2>1 DEF Validate
  <2>3. d.named /\ d.ports = k.ports /\ d.params = k.params
    BY <2>1, <2>2, SamePorts
  <2>4. ASSUME Readable(d, k)
        PROVE  /\ k.clock # NoClock /\ k.sequential =>
                     \E h \in LiveHeaders(d) : h.clk = k.clock /\ h.right
               /\ k.clock # NoClock /\ k.reset = "async" =>
                     \E h \in LiveHeaders(d) : h.clk = k.clock /\ h.reset \in {"or", "longer"}
               /\ k.reset = "sync" =>
                     \A h \in LiveHeaders(d) :
                         h.clk = ClockName(k) => h.reset \in {"none", "comma"}
    <3>1. LiveHeaders(d) = Headers(d)
      BY <2>4, ReadableLists
    <3>2. \A h \in Headers(d) : h.reset \in {"none", "or", "longer", "comma", "remark"}
      <4>1. d.blocks \in Seq(Block)
        BY <2>1, ChecksAssumption
      <4>2. \A b \in Blocks(d) : b \in Block
        BY <4>1 DEF Blocks
      <4> QED
        BY <4>2 DEF Headers, Block, Header
    <3>3. \A h \in Headers(d) : h.reset # "remark"
      BY <2>4 DEF Readable
    <3>4. ASSUME k.clock # NoClock, k.sequential
          PROVE  \E h \in LiveHeaders(d) : h.clk = k.clock /\ h.right
      BY <2>2, <3>1, <3>4, CleanClock
    <3>5. ASSUME k.clock # NoClock, k.reset = "async"
          PROVE  \E h \in LiveHeaders(d) : h.clk = k.clock /\ h.reset \in {"or", "longer"}
      <4>1. \E h \in Headers(d) : ListsReset(h, k)
        BY <2>2, <2>4, <3>5, CleanReset
      <4> QED
        BY <3>1, <3>5, <4>1 DEF ListsReset, ClockName
    <3>6. ASSUME k.reset = "sync", NEW h \in LiveHeaders(d), h.clk = ClockName(k)
          PROVE  h.reset \in {"none", "comma"}
      <4>1. ~ListsReset(h, k)
        BY <2>2, <2>4, <3>1, <3>6, CleanReset
      <4> QED
        BY <3>1, <3>2, <3>3, <3>6, <4>1 DEF ListsReset
    <3> QED
      BY <3>4, <3>5, <3>6
  <2> QED
    BY <2>3, <2>4 DEF CleanIsCompatible
<1> QED
  BY <1>1, ChecksInvariant, PTL

\* The span of a block with a begin is the block; any other is that of a block
\* with one.
LEMMA OwnSpan ==
    ASSUME NEW d \in Designs, NEW i \in DOMAIN d.blocks,
           d.blocks[i].begins, ~d.blocks[i].comment
    PROVE  i \in Span(d.blocks, i)
<1>1. i \in Nat /\ DOMAIN d.blocks \subseteq Nat
  BY ChecksAssumption, LenProperties
<1> QED
  BY <1>1 DEF Span

\* A repair is turned away for its drivers when it has a net with both kinds,
\* and then only, but for what the search mistakes (detect_multidriven_nets).
THEOREM MultidrivenNetsReal == ChecksSpec => []MultidrivenIsReal
<1>1. ChecksInv => MultidrivenIsReal
  <2> SUFFICES ASSUME ChecksInv PROVE MultidrivenIsReal
    OBVIOUS
  <2>1. ASSUME look = "REPAIR_MULTIDRIVEN", NEW net \in MultidrivenNets(candidate)
        PROVE  \/ net \in candidate.assigned /\ AssignedInBlock(candidate, net)
               \/ net \in candidate.indexes
               \/ \E b \in Blocks(candidate) : net \in b.compares
    <3>1. PICK i \in DOMAIN candidate.blocks :
             \E j \in Span(candidate.blocks, i) : net \in Driven(candidate.blocks[j])
      BY DEF MultidrivenNets, Procedural
    <3>2. PICK j \in Span(candidate.blocks, i) : net \in Driven(candidate.blocks[j])
      BY <3>1
    <3>3. j \in DOMAIN candidate.blocks /\ ~candidate.blocks[j].comment
      BY <3>2 DEF Span
    <3>4. candidate.blocks[j] \in Blocks(candidate)
      BY <3>3 DEF Blocks
    <3>5. net \in candidate.assigned \cup candidate.indexes
      BY DEF MultidrivenNets
    <3> QED
      BY <3>2, <3>3, <3>4, <3>5 DEF Driven, AssignedInBlock
  <2>2. ASSUME repaired, look \in {"verified", "judged"},
               NEW net \in candidate.assigned, NEW b \in Blocks(candidate),
               b.begins, ~b.comment, net \in b.drives \ b.locals
        PROVE  FALSE
    <3>1. MultidrivenNets(candidate) = {}
      <4>1. Precheck(candidate, contract) = "verified"
        BY <2>2 DEF ChecksInv
      <4> QED
        BY <4>1 DEF Precheck
    <3>2. PICK i \in DOMAIN candidate.blocks : b = candidate.blocks[i]
      BY DEF Blocks
    <3>3. i \in Span(candidate.blocks, i)
      BY <2>2, <3>2, OwnSpan DEF ChecksInv
    <3>4. i \in Procedural(candidate, net)
      BY <2>2, <3>2, <3>3 DEF Procedural, Driven
    <3> QED
      BY <3>1, <3>4 DEF MultidrivenNets
  <2> QED
    BY <2>1, <2>2 DEF MultidrivenIsReal
<1> QED
  BY <1>1, ChecksInvariant, PTL
-----------------------------------------------------------------------------
(***************************************************************************)
(* The answer.                                                             *)
(***************************************************************************)
ParserInv ==
    /\ answer \in Answers /\ base \in Bases
    /\ code = Rejected \/ code = Parse(answer, mode, base)

LEMMA ParserInvariant == ParserSpec => []ParserInv
<1>1. ParserInit => ParserInv
  BY DEF ParserInit, ParserInv
<1>2. ParserInv /\ [ParserNext]_parserVars => ParserInv'
  BY DEF ParserInv, ParserNext, ReadAnswer, parserVars
<1> QED
  BY <1>1, <1>2, PTL DEF ParserSpec

LEMMA TextFacts ==
    ASSUME NEW t \in Texts
    PROVE  /\ Len(t) \in Nat /\ DOMAIN t = 1..Len(t)
           /\ \A i \in DOMAIN t : t[i] \in Pieces
           /\ t # <<>> => Len(t) > 0
  BY DEF Texts

\* A set of positions has a first one.
LEMMA FirstPosition ==
    ASSUME NEW T \in SUBSET Nat, T # {}
    PROVE  \E x \in T : \A y \in T : x <= y
<1>1. PICK x \in T : \A y \in T : ~(<<y, x>> \in OpToRel(<, Nat))
  BY WFMin, NatLessThanWellFounded
<1>2. \A y \in T : ~(y < x)
  BY <1>1 DEF OpToRel
<1> QED
  BY <1>2

\* The texts around a fence.
LEMMA ProseTexts ==
    ASSUME NEW p \in Prose
    PROVE  /\ p.before \in Texts /\ p.fence \in Texts /\ p.after \in Texts
           /\ Whole(p) \in Texts /\ Sanitized(p) \in Texts
<1>1. p.before \in Texts /\ p.fence \in Texts /\ p.after \in Texts
  BY DEF Prose
<1>2. Mark \in Texts
  BY DEF Mark, Texts, Pieces
<1>3. \A t, u \in Texts : t \o u \in Texts
  BY ConcatProperties DEF Texts
<1> QED
  BY <1>1, <1>2, <1>3 DEF Whole, Sanitized

\* A text that begins before its fence keeps its beginning.
LEMMA JoinedBegins ==
    ASSUME NEW t \in Texts, NEW u \in Texts, t # <<>>
    PROVE  t \o u \in Texts /\ t \o u # <<>> /\ (t \o u)[1] = t[1]
<1>1. /\ t \o u \in Texts /\ Len(t \o u) = Len(t) + Len(u)
      /\ \A i \in 1..Len(t) + Len(u) :
            (t \o u)[i] = IF i <= Len(t) THEN t[i] ELSE u[i - Len(t)]
  BY ConcatProperties DEF Texts
<1>2. Len(t) \in Nat /\ Len(t) > 0 /\ Len(u) \in Nat
  BY TextFacts
<1>3. Len(t \o u) > 0 /\ (t \o u)[1] = t[1]
  BY <1>1, <1>2
<1> QED
  BY <1>1, <1>3, EmptySeq

LEMMA FenceAfterText ==
    ASSUME NEW p \in Prose, p.fenced, p.before # <<>>
    PROVE  Sanitized(p) # <<>> /\ Sanitized(p)[1] = p.before[1]
<1>1. p.before \in Texts /\ p.fence \in Texts /\ p.after \in Texts /\ Mark \in Texts
  BY ProseTexts DEF Mark, Texts, Pieces
<1> DEFINE a == p.before \o Mark
           b == a \o p.fence
           c == b \o Mark
           d == c \o p.after
<1>2. Sanitized(p) = d
  BY DEF Sanitized, Whole
<1>3. a \in Texts /\ a # <<>> /\ a[1] = p.before[1]
  BY <1>1, JoinedBegins
<1> HIDE DEF a
<1>4. b \in Texts /\ b # <<>> /\ b[1] = a[1]
  BY <1>1, <1>3, JoinedBegins
<1> HIDE DEF b
<1>5. c \in Texts /\ c # <<>> /\ c[1] = b[1]
  BY <1>1, <1>4, JoinedBegins
<1> HIDE DEF c
<1>6. d # <<>> /\ d[1] = c[1]
  BY <1>1, <1>5, JoinedBegins
<1> QED
  BY <1>2, <1>3, <1>4, <1>5, <1>6

-----------------------------------------------------------------------------
(* Strict and lenient mode. *)

\* A text that is all one module is what the lenient search finds in it.
LEMMA FullMatchIsFirstBlock ==
    ASSUME NEW t \in Texts, FullMatch(t), ~SeveralModules(t)
    PROVE  HasBlock(t) /\ FirstBlock(t) = t
<1>1. /\ Len(t) \in Nat /\ DOMAIN t = 1..Len(t) /\ Len(t) > 0
      /\ t[Len(t)] \in Ends
  BY TextFacts DEF FullMatch
<1>2. PICK h \in DOMAIN t : t[h] \in Heads /\ \A j \in 1..(h - 1) : t[j] \in Before
  BY DEF FullMatch
<1>3. HasBlock(t)
  BY <1>1, <1>2 DEF HasBlock
<1>4. \A x \in Before : x \notin Heads
  BY DEF Before, Heads
<1>5. FirstHead(t) = h
  <2>1. \A g \in DOMAIN t : t[g] \in Heads /\ (\A j \in 1..(g - 1) : t[j] \notin Heads) <=> g = h
    BY <1>1, <1>2, <1>4
  <2> QED
    BY <2>1 DEF FirstHead
<1> DEFINE Starts(i) == /\ \A j \in i..(h - 1) : t[j] \in Before
                        /\ i > 1 => t[i - 1] \notin Before
           Finishes(k) == h <= k /\ t[k] \in Ends /\ \A j \in h..(k - 1) : t[j] \notin Ends
<1>6. \A i \in 1..h : Starts(i) <=> i = 1
  BY <1>1, <1>2
<1>7. \A k \in DOMAIN t : Finishes(k) <=> k = Len(t)
  <2>1. \A j \in DOMAIN t : j < Len(t) => t[j] \notin Ends
    BY <1>1 DEF SeveralModules
  <2> QED
    BY <1>1, <1>2, <2>1
<1> HIDE DEF Starts, Finishes
<1>8. (CHOOSE i \in 1..h : Starts(i)) = 1
  BY <1>1, <1>2, <1>6
<1>9. (CHOOSE k \in DOMAIN t : Finishes(k)) = Len(t)
  BY <1>1, <1>7
<1>10. FirstBlock(t) = SubSeq(t, 1, Len(t))
  BY <1>5, <1>8, <1>9 DEF FirstBlock, Starts, Finishes
<1>11. FirstBlock(t) = t
  BY <1>10, SubSeqFull DEF Texts
<1> QED
  BY <1>3, <1>11

\* Lenient mode reads what strict mode reads as strict mode does, but for the
\* three kinds of answers named (_parse_model_code_response).
THEOREM ModesDoAgree == ParserSpec => []ModesAgree
<1>1. ParserInv => ModesAgree
  <2> SUFFICES ASSUME ParserInv, mode = "strict", code.accepted,
                      answer.kind = "object" => ~IsTree(answer.object) /\ ~answer.object.recovers,
                      answer.kind = "text" =>
                         /\ ~SeveralModules(Sanitized(answer.text))
                         /\ Sanitized(answer.text) = Whole(answer.text) \/ FenceTaken(answer.text)
               PROVE  Parse(answer, "lenient", base) = code
    BY DEF ModesAgree
  <2>1. code = Parse(answer, "strict", base) /\ code # Rejected
    BY DEF ParserInv, Rejected
  <2>2. CASE answer.kind = "action"
    BY <2>1, <2>2 DEF Parse
  <2>3. CASE answer.kind = "object"
    BY <2>1, <2>3 DEF Parse, StrictObject, LenientObject
  <2>4. CASE answer.kind = "text"
    <3> DEFINE p == answer.text
               t == Sanitized(p)
    <3>1. p \in Prose /\ t \in Texts
      BY <2>4, ParserAssumption, ProseTexts DEF ParserInv
    <3>2. code = StrictText(p) /\ Parse(answer, "lenient", base) = LenientText(p)
      BY <2>1, <2>4 DEF Parse
    <3>3. CASE ~p.braced /\ FenceTaken(p)
      BY <3>2, <3>3 DEF StrictText, LenientText
    <3>4. CASE ~(~p.braced /\ FenceTaken(p))
      <4>1. FullMatch(t) /\ code = ApplyNaming(t)
        BY <2>1, <3>2, <3>4 DEF StrictText
      <4>2. HasBlock(t) /\ FirstBlock(t) = t
        BY <2>4, <3>1, <4>1, FullMatchIsFirstBlock
      <4>3. ~FenceTaken(p)
        <5> SUFFICES ASSUME FenceTaken(p) PROVE FALSE
          OBVIOUS
        <5>1. p.before # <<>> /\ p.before[1] = "prose" /\ p.fenced
          BY <2>4, <3>4, ParserAssumption DEF ParserInv, FenceTaken
        <5>2. t[1] = "prose" /\ t # <<>>
          BY <3>1, <5>1, FenceAfterText
        <5>3. PICK h \in DOMAIN t : t[h] \in Heads /\ \A j \in 1..(h - 1) : t[j] \in Before
          BY <4>1 DEF FullMatch
        <5>4. h = 1 \/ 1 \in 1..(h - 1)
          BY <3>1, <5>3, TextFacts
        <5> QED
          BY <5>2, <5>3, <5>4 DEF Heads, Before
      <4>4. t = Whole(p)
        BY <2>4, <4>3
      <4> QED
        BY <3>2, <3>4, <4>1, <4>2, <4>3, <4>4 DEF LenientText
    <3> QED
      BY <3>3, <3>4
  <2>5. answer.kind \in {"action", "object", "text"}
    BY ParserAssumption DEF ParserInv
  <2> QED
    BY <2>2, <2>3, <2>4, <2>5
<1> QED
  BY <1>1, ParserInvariant, PTL
-----------------------------------------------------------------------------
(* What is accepted. *)

\* A text without half modules that has a module gets its name on one.
LEMMA NamedModule ==
    ASSUME NEW t \in Texts, Kinds(t) \subseteq PlainPieces, "module" \in Kinds(t)
    PROVE  /\ ApplyNaming(t).named \in DOMAIN ApplyNaming(t).text
           /\ ApplyNaming(t).text[ApplyNaming(t).named] = "module"
<1> DEFINE First(i) == t[i] \in Declares /\ \A j \in 1..(i - 1) : t[j] \notin Declares
           T == {i \in DOMAIN t : t[i] \in Declares}
<1>1. DOMAIN t = 1..Len(t) /\ Len(t) \in Nat
  BY TextFacts
<1>2. T # {} /\ T \in SUBSET Nat
  BY <1>1 DEF Kinds, Declares, Heads
<1>3. PICK x \in T : \A y \in T : x <= y
  BY <1>2, FirstPosition
<1>4. First(x)
  BY <1>1, <1>3
<1> DEFINE i == CHOOSE i \in DOMAIN t : First(i)
<1>5. i \in DOMAIN t /\ First(i)
  BY <1>3, <1>4
<1>6. t[i] = "module"
  <2>1. t[i] \in PlainPieces /\ t[i] \in Declares
    BY <1>5 DEF Kinds
  <2> QED
    BY <2>1 DEF PlainPieces, Declares, Heads
<1>7. ApplyNaming(t).named = i /\ ApplyNaming(t).text = t
  BY <1>3 DEF ApplyNaming
<1> QED
  BY <1>5, <1>6, <1>7

\* Of the words only a whole module is left.
LEMMA PlainWords ==
    ASSUME NEW t \in Texts, Kinds(t) \subseteq PlainPieces
    PROVE  /\ HasWords(t) => "module" \in Kinds(t)
           /\ WholeWords(t) # {} => "module" \in Kinds(t)
           /\ FullMatch(t) => "module" \in Kinds(t)
           /\ ~Has(t, {"header"})
           /\ Unescape(t) = t
<1>1. \A i \in DOMAIN t : t[i] \in PlainPieces /\ t[i] \in Kinds(t)
  BY DEF Kinds
<1>2. \A i \in DOMAIN t : t[i] \in Ends \cup {"escaped"} => t[i] = "module"
  BY <1>1 DEF PlainPieces, Ends
<1>3. \A i \in DOMAIN t : t[i] \in Ends => t[i] = "module"
  BY <1>2
<1>4. HasWords(t) => "module" \in Kinds(t)
  BY <1>1, <1>2 DEF HasWords
<1>5. WholeWords(t) # {} => "module" \in Kinds(t)
  <2>1. \A i \in DOMAIN t : t[i] \in Heads \cup {"words"} => t[i] = "module"
    BY <1>1 DEF PlainPieces, Heads
  <2> QED
    BY <1>1, <1>3, <2>1 DEF WholeWords, Has
<1>6. FullMatch(t) => "module" \in Kinds(t)
  <2>1. t # <<>> => Len(t) \in DOMAIN t
    BY TextFacts
  <2> QED
    BY <1>1, <1>3, <2>1 DEF FullMatch
<1>7. ~Has(t, {"header"})
  BY <1>1 DEF Has, PlainPieces
<1>8. Unescape(t) = t
  <2>1. \A i \in DOMAIN t : t[i] # "escaped" /\ t[i] # "string"
    BY <1>1 DEF PlainPieces
  <2>2. t = [i \in DOMAIN t |-> t[i]]
    BY DEF Texts
  <2>3. \A i \in DOMAIN t :
           (CASE t[i] = "escaped" -> "module" [] t[i] = "string" -> "broken" [] OTHER -> t[i]) = t[i]
    BY <2>1
  <2> QED
    BY <2>2, <2>3 DEF Unescape
<1> QED
  BY <1>4, <1>5, <1>6, <1>7, <1>8

\* The block that is found in a text begins at or before its first declaration
\* and ends behind it.
LEMMA BlockOfText ==
    ASSUME NEW t \in Texts, HasBlock(t), Kinds(t) \subseteq PlainPieces
    PROVE  /\ FirstBlock(t) \in Texts
           /\ Kinds(FirstBlock(t)) \subseteq PlainPieces
           /\ "module" \in Kinds(FirstBlock(t))
<1>1. Len(t) \in Nat /\ DOMAIN t = 1..Len(t) /\ DOMAIN t \in SUBSET Nat
  BY TextFacts
<1>2. PICK h0 \in DOMAIN t, k0 \in DOMAIN t : h0 <= k0 /\ t[h0] \in Heads /\ t[k0] \in Ends
  BY DEF HasBlock
<1> DEFINE h == FirstHead(t)
<1>3. h \in DOMAIN t /\ t[h] \in Heads /\ h <= h0
  <2> DEFINE T == {i \in DOMAIN t : t[i] \in Heads}
             First(g) == t[g] \in Heads /\ \A j \in 1..(g - 1) : t[j] \notin Heads
  <2>1. PICK x \in T : \A y \in T : x <= y
    BY <1>1, <1>2, FirstPosition
  <2>2. First(x)
    BY <1>1, <2>1
  <2>3. h = CHOOSE g \in DOMAIN t : First(g)
    BY DEF FirstHead
  <2>4. h \in DOMAIN t /\ First(h)
    BY <2>1, <2>2, <2>3
  <2>5. ~(h0 < h)
    BY <1>1, <1>2, <2>4
  <2> QED
    BY <1>1, <1>2, <2>4, <2>5
<1> HIDE DEF h
<1> DEFINE Starts(n) == /\ \A j \in n..(h - 1) : t[j] \in Before
                        /\ n > 1 => t[n - 1] \notin Before
           Finishes(n) == h <= n /\ t[n] \in Ends /\ \A j \in h..(n - 1) : t[j] \notin Ends
           i == CHOOSE i \in 1..h : Starts(i)
           k == CHOOSE k \in DOMAIN t : Finishes(k)
<1>4. i \in 1..h
  <2> DEFINE T == {n \in 1..h : \A j \in n..(h - 1) : t[j] \in Before}
  <2>1. h \in T /\ T \in SUBSET Nat
    BY <1>1, <1>3
  <2>2. PICK x \in T : \A y \in T : x <= y
    BY <2>1, FirstPosition
  <2>3. x > 1 => t[x - 1] \notin Before
    <3> SUFFICES ASSUME x > 1, t[x - 1] \in Before PROVE FALSE
      OBVIOUS
    <3>1. x - 1 \in T
      BY <1>1, <1>3, <2>2
    <3> QED
      BY <1>1, <1>3, <2>2, <3>1
  <2>4. x \in 1..h /\ Starts(x)
    BY <2>2, <2>3
  <2> HIDE DEF Starts
  <2> QED
    BY <2>4
<1>5. k \in DOMAIN t /\ h <= k
  <2> DEFINE T == {n \in DOMAIN t : h <= n /\ t[n] \in Ends}
  <2>1. k0 \in T /\ T \in SUBSET Nat
    BY <1>1, <1>2, <1>3
  <2>2. PICK x \in T : \A y \in T : x <= y
    BY <2>1, FirstPosition
  <2>3. x \in DOMAIN t /\ Finishes(x)
    BY <1>1, <1>3, <2>2
  <2>4. k \in DOMAIN t /\ Finishes(k)
    <3> HIDE DEF Finishes
    <3> QED BY <2>3
  <2> QED
    BY <2>4
<1>6. FirstBlock(t) = SubSeq(t, i, k)
  BY DEF FirstBlock, h
<1> HIDE DEF i, k
<1>7. i \in Int /\ k \in Int /\ 1 <= i /\ i <= h /\ h <= k /\ k <= Len(t) /\ h \in Int
  BY <1>1, <1>3, <1>4, <1>5
<1>8. \A n \in i..k : t[n] \in Pieces
  BY <1>1, <1>7, TextFacts
<1> DEFINE b == SubSeq(t, i, k)
<1>9. /\ b \in Texts /\ Len(b) = k - i + 1
      /\ \A n \in 1..(k - i + 1) : b[n] = t[i + n - 1]
  BY <1>7, <1>8, SubSeqProperties DEF Texts
<1>10. DOMAIN b = 1..(k - i + 1)
  BY <1>9, TextFacts
<1>11. Kinds(b) \subseteq Kinds(t)
  <2>1. \A n \in DOMAIN b : b[n] = t[i + n - 1] /\ i + n - 1 \in DOMAIN t
    BY <1>1, <1>7, <1>9, <1>10
  <2> QED
    BY <2>1 DEF Kinds
<1>12. "module" \in Kinds(b)
  <2>1. h - i + 1 \in DOMAIN b /\ b[h - i + 1] = t[h]
    BY <1>7, <1>9, <1>10
  <2>2. t[h] \in PlainPieces
    BY <1>3 DEF Kinds
  <2>3. t[h] = "module"
    BY <1>3, <2>2 DEF PlainPieces, Heads
  <2> QED
    BY <2>1, <2>3 DEF Kinds
<1> QED
  BY <1>6, <1>9, <1>11, <1>12

\* What is not in two texts is not in the two together.
LEMMA JoinedKinds ==
    ASSUME NEW t \in Texts, NEW u \in Texts
    PROVE  t \o u \in Texts /\ Kinds(t \o u) = Kinds(t) \cup Kinds(u)
<1>1. /\ t \o u \in Texts /\ Len(t \o u) = Len(t) + Len(u)
      /\ \A i \in 1..Len(t) + Len(u) :
            (t \o u)[i] = IF i <= Len(t) THEN t[i] ELSE u[i - Len(t)]
  BY ConcatProperties DEF Texts
<1>2. /\ Len(t) \in Nat /\ DOMAIN t = 1..Len(t)
      /\ Len(u) \in Nat /\ DOMAIN u = 1..Len(u)
      /\ DOMAIN (t \o u) = 1..(Len(t) + Len(u))
  BY <1>1, TextFacts
<1>3. \A i \in DOMAIN t : i \in DOMAIN (t \o u) /\ (t \o u)[i] = t[i]
  BY <1>1, <1>2
<1>4. \A i \in DOMAIN u : i + Len(t) \in DOMAIN (t \o u) /\ (t \o u)[i + Len(t)] = u[i]
  BY <1>1, <1>2
<1>5. \A i \in DOMAIN (t \o u) :
         \/ i \in DOMAIN t /\ (t \o u)[i] = t[i]
         \/ i - Len(t) \in DOMAIN u /\ (t \o u)[i] = u[i - Len(t)]
  BY <1>1, <1>2
<1>6. Kinds(t) \subseteq Kinds(t \o u)
  BY <1>3 DEF Kinds
<1>7. Kinds(u) \subseteq Kinds(t \o u)
  BY <1>4 DEF Kinds
<1>8. Kinds(t \o u) \subseteq Kinds(t) \cup Kinds(u)
  BY <1>5 DEF Kinds
<1> QED
  BY <1>1, <1>6, <1>7, <1>8

\* Nothing of a text is lost around its fence.
LEMMA ProseKinds ==
    ASSUME NEW p \in Prose, PlainText(p)
    PROVE  /\ Kinds(Sanitized(p)) \subseteq PlainPieces
           /\ p.fenced => Kinds(p.fence) \subseteq PlainPieces
           /\ ~p.fenced => Kinds(p.before) \subseteq PlainPieces
<1> DEFINE t == p.before  f == p.fence  u == p.after
<1>1. t \in Texts /\ f \in Texts /\ u \in Texts /\ Mark \in Texts
  BY ProseTexts DEF Mark, Texts, Pieces
<1>2. CASE ~p.fenced
  BY <1>2 DEF PlainText, Whole, Sanitized
<1>3. CASE p.fenced
  <2>1. t \o Mark \in Texts /\ Kinds(t \o Mark) = Kinds(t) \cup Kinds(Mark)
    BY <1>1, JoinedKinds
  <2>2. /\ (t \o Mark) \o f \in Texts
        /\ Kinds((t \o Mark) \o f) = Kinds(t) \cup Kinds(Mark) \cup Kinds(f)
    BY <1>1, <2>1, JoinedKinds
  <2>3. /\ ((t \o Mark) \o f) \o Mark \in Texts
        /\ Kinds(((t \o Mark) \o f) \o Mark) = Kinds(t) \cup Kinds(Mark) \cup Kinds(f)
    BY <1>1, <2>2, JoinedKinds
  <2>4. Kinds((((t \o Mark) \o f) \o Mark) \o u)
          = Kinds(t) \cup Kinds(Mark) \cup Kinds(f) \cup Kinds(u)
    BY <1>1, <2>3, JoinedKinds
  <2>5. Kinds(Whole(p)) = Kinds(t) \cup Kinds(Mark) \cup Kinds(f) \cup Kinds(u)
    BY <1>3, <2>4 DEF Whole
  <2>6. f \o Mark \in Texts /\ Kinds(f \o Mark) = Kinds(f) \cup Kinds(Mark)
    BY <1>1, JoinedKinds
  <2>7. Kinds((f \o Mark) \o u) = Kinds(f) \cup Kinds(Mark) \cup Kinds(u)
    BY <1>1, <2>6, JoinedKinds
  <2>8. Kinds(Sanitized(p)) \subseteq Kinds(Whole(p))
    BY <1>3, <2>5, <2>7 DEF Sanitized
  <2> QED
    BY <1>3, <2>5, <2>8 DEF PlainText
<1> QED
  BY <1>2, <1>3

\* What an object gives.
LEMMA ObjectHoldsModule ==
    ASSUME NEW o \in Objects, NEW rtl \in Bases, NEW c,
           o.recovers => HasWords(Whole(o.known)),
           o.impl.is = "string" => Kinds(o.impl.text) \subseteq PlainPieces,
           o.patch.is = "string" => Kinds(o.patch.text) \subseteq PlainPieces /\ o.says = {},
           rtl.given => \A place \in {o.line, o.context} :
              Words \subseteq rtl.says \cup Left(place) => Words \subseteq Left(place),
           o.recovers => /\ PlainText(o.known)
                         /\ o.known.fenced => HasWords(o.known.fence),
           c \in {StrictObject(o, rtl), LenientObject(o, rtl)}, c.accepted
    PROVE  c.named \in DOMAIN c.text /\ c.text[c.named] = "module"
<1>1. /\ o.impl.text \in Texts /\ o.patch.text \in Texts /\ o.known \in Prose
      /\ o.impl.is \in {"absent", "other", "string"}
  BY DEF Objects, Value
<1>2. ~Rejected.accepted
  BY DEF Rejected
<1>3. /\ <<"module">> \in Texts /\ Kinds(<<"module">>) \subseteq PlainPieces
      /\ "module" \in Kinds(<<"module">>)
  <2>1. <<"module">> \in Texts /\ DOMAIN <<"module">> = {1} /\ <<"module">>[1] = "module"
    BY DEF Texts, Pieces
  <2> QED
    BY <2>1 DEF Kinds, PlainPieces
<1>4. CASE rtl.given /\ c = Patched(o, rtl.says)
  <2>1. /\ o.patch.is = "string" /\ Said(o) = WholeWords(o.patch.text)
        /\ Kinds(o.patch.text) \subseteq PlainPieces
    BY <1>2, <1>4 DEF Patched, Said
  <2>2. CASE WholeWords(o.patch.text) # {}
    <3>1. "module" \in Kinds(o.patch.text)
      BY <1>1, <2>1, <2>2, PlainWords
    <3>2. Words \subseteq WholeWords(o.patch.text)
      BY <3>1 DEF WholeWords, Has, Kinds, Heads, Ends, Words
    <3>3. c = ApplyNaming(o.patch.text)
      BY <1>4, <2>1, <3>2 DEF Patched
    <3> QED
      BY <1>1, <2>1, <3>1, <3>3, NamedModule
  <2>3. CASE WholeWords(o.patch.text) = {}
    <3>1. PICK place \in {o.line, o.context} :
             Fits(o, place, rtl.says) /\ c = ApplyNaming(Replaced(o, place))
      <4>1. ~(Words \subseteq Said(o))
        BY <2>1, <2>3 DEF Words
      <4> QED
        BY <1>2, <1>4, <2>1, <4>1 DEF Patched
    <3>2. Words \subseteq rtl.says \cup Left(place)
      BY <2>1, <2>3, <3>1 DEF Fits
    <3>3. Words \subseteq Left(place)
      BY <1>4, <3>2
    <3>4. Replaced(o, place) = <<"module">>
      <4>1. Words \subseteq WholeWords(o.patch.text) \cup Left(place)
        BY <3>3
      <4>2. /\ WholeWords(o.patch.text) \cup Left(place) # {"module"}
            /\ WholeWords(o.patch.text) \cup Left(place) # {"endmodule"}
        BY <4>1 DEF Words
      <4> QED
        BY <4>1, <4>2 DEF Replaced
    <3> QED
      BY <1>3, <3>1, <3>4, NamedModule
  <2> QED
    BY <2>2, <2>3
<1>5. CASE c = ApplyNaming(FromTree(o))
  <2> DEFINE body == IF o.impl.is = "string" THEN Unescape(o.impl.text) ELSE <<>>
  <2>1. body \in Texts /\ Kinds(body) \subseteq PlainPieces
    <3>1. CASE o.impl.is = "string"
      BY <1>1, <3>1, PlainWords
    <3>2. CASE o.impl.is # "string"
      BY <3>2 DEF Texts, Kinds
    <3> QED
      BY <3>1, <3>2
  <2> HIDE DEF body
  <2>2. FromTree(o) = IF HasWords(body) THEN body ELSE <<"module">>
    <3>1. ~Has(body, {"header"})
      BY <2>1, PlainWords
    <3> QED
      BY <3>1 DEF FromTree, Wrapped, body
  <2>3. CASE HasWords(body)
    BY <1>5, <2>1, <2>2, <2>3, PlainWords, NamedModule
  <2>4. CASE ~HasWords(body)
    BY <1>3, <1>5, <2>2, <2>4, NamedModule
  <2> QED
    BY <2>3, <2>4
<1>6. CASE o.recovers /\ c = ApplyNaming(FromKnown(o.known))
  <2> DEFINE t == IF ~o.known.fenced THEN o.known.before ELSE o.known.fence
  <2>1. t \in Texts /\ Kinds(t) \subseteq PlainPieces
    BY <1>1, <1>6, ProseTexts, ProseKinds
  <2>2. HasWords(t)
    BY <1>6 DEF Whole
  <2>3. FromKnown(o.known) = t
    BY <2>1, PlainWords DEF FromKnown
  <2> HIDE DEF t
  <2> QED
    BY <1>6, <2>1, <2>2, <2>3, PlainWords, NamedModule
<1>7. \/ rtl.given /\ c = Patched(o, rtl.says)
      \/ c = ApplyNaming(FromTree(o)) \/ c = Rejected
      \/ o.recovers /\ c = ApplyNaming(FromKnown(o.known))
  BY DEF StrictObject, LenientObject
<1> QED
  BY <1>2, <1>4, <1>5, <1>6, <1>7

\* What an answer in prose gives.
LEMMA TextHoldsModule ==
    ASSUME NEW p \in Prose, PlainText(p), NEW c,
           c \in {StrictText(p), LenientText(p)}, c.accepted
    PROVE  c.named \in DOMAIN c.text /\ c.text[c.named] = "module"
<1> DEFINE t == Sanitized(p)
<1>1. /\ p.fence \in Texts /\ t \in Texts /\ Whole(p) \in Texts
      /\ Kinds(t) \subseteq PlainPieces /\ Kinds(Whole(p)) \subseteq PlainPieces
      /\ p.fenced => Kinds(p.fence) \subseteq PlainPieces
  BY ProseTexts, ProseKinds DEF PlainText
<1>2. \/ FenceTaken(p) /\ c = ApplyNaming(p.fence)
      \/ FullMatch(t) /\ c = ApplyNaming(t)
      \/ HasBlock(t) /\ c = ApplyNaming(FirstBlock(t))
      \/ HasBlock(Whole(p)) /\ c = ApplyNaming(FirstBlock(Whole(p)))
  BY DEF StrictText, LenientText, Rejected
<1> HIDE DEF t
<1>3. CASE FenceTaken(p) /\ c = ApplyNaming(p.fence)
  <2>1. Kinds(p.fence) \subseteq PlainPieces /\ HasWords(p.fence)
    BY <1>1, <1>3 DEF FenceTaken
  <2> QED
    BY <1>1, <1>3, <2>1, PlainWords, NamedModule
<1>4. CASE FullMatch(t) /\ c = ApplyNaming(t)
  BY <1>1, <1>4, PlainWords, NamedModule
<1>5. ASSUME NEW u \in Texts, Kinds(u) \subseteq PlainPieces, HasBlock(u),
             c = ApplyNaming(FirstBlock(u))
      PROVE  c.named \in DOMAIN c.text /\ c.text[c.named] = "module"
  <2>1. /\ FirstBlock(u) \in Texts /\ Kinds(FirstBlock(u)) \subseteq PlainPieces
        /\ "module" \in Kinds(FirstBlock(u))
    BY <1>5, BlockOfText
  <2> QED
    BY <1>5, <2>1, NamedModule
<1> QED
  BY <1>1, <1>2, <1>3, <1>4, <1>5

\* What is accepted of an answer whose modules are whole holds a module, and
\* the contract's name is put on it (_parse_model_code_response).
THEOREM AcceptedHold == ParserSpec => []AcceptedHoldsModule
<1>1. ParserInv => AcceptedHoldsModule
  <2> SUFFICES ASSUME ParserInv, code.accepted, Plain(answer), ~TakenForRemark(answer)
               PROVE  code.named \in DOMAIN code.text /\ code.text[code.named] = "module"
    BY DEF AcceptedHoldsModule
  <2>1. code = Parse(answer, mode, base) /\ base \in Bases
    BY DEF ParserInv, Rejected
  <2>2. answer.kind \in {"object", "text"}
    BY DEF Plain
  <2>3. CASE answer.kind = "object"
    <3>1. /\ answer.object \in Objects
          /\ answer.object.recovers => HasWords(Whole(answer.object.known))
      BY <2>3, ParserAssumption DEF ParserInv
    <3>2. code \in {StrictObject(answer.object, base), LenientObject(answer.object, base)}
      BY <2>1, <2>3 DEF Parse
    <3>3. base.given => \A place \in {answer.object.line, answer.object.context} :
             Words \subseteq base.says \cup Left(place) => Words \subseteq Left(place)
      BY <2>3 DEF TakenForRemark
    <3> QED
      BY <2>1, <2>3, <3>1, <3>2, <3>3, ObjectHoldsModule DEF Plain
  <2>4. CASE answer.kind = "text"
    <3>1. answer.text \in Prose /\ PlainText(answer.text)
      BY <2>4, ParserAssumption DEF ParserInv, Plain
    <3>2. code \in {StrictText(answer.text), LenientText(answer.text)}
      BY <2>1, <2>4 DEF Parse
    <3> QED
      BY <3>1, <3>2, TextHoldsModule
  <2> QED
    BY <2>2, <2>3, <2>4
<1> QED
  BY <1>1, ParserInvariant, PTL
=============================================================================
