-------------------------- MODULE StructuralChecks --------------------------
(***************************************************************************)
(* What is looked at in a candidate's text without a tool: the two checks  *)
(* before a verification is paid for (core/vcd_evidence.py,                *)
(* sensitivity_mismatch and detect_multidriven_nets) and the comparison    *)
(* with the contract that opens Gate 1 (core/contracts.py,                 *)
(* validate_rtl_against_contract).  All three search the text with regular *)
(* expressions; a design is what those tell apart.                         *)
(***************************************************************************)
EXTENDS Naturals, FiniteSets, Sequences

CONSTANTS
    Contracts,   \* the contracts
    Designs,     \* the candidates
    Longer,      \* pairs of names of which the first begins the second
    NoClock      \* a contract without a clock

\* A sensitivity list: its clock; whether it has the contract's edge; how the
\* reset is written (after or, after a comma, in a remark behind the list; or
\* another name after or that begins like the reset's); whether it is broken
\* over two lines before the reset.
Header == [clk : STRING, right : BOOLEAN,
           reset : {"none", "or", "longer", "comma", "remark"}, wrapped : BOOLEAN]

\* An always block, which may be commented out: the nets it assigns, those
\* only after a name that ends in "end", those it compares by <=, and those it
\* declares.
Block == [header : Header, comment : BOOLEAN, begins : BOOLEAN, drives : SUBSET STRING,
          late : SUBSET STRING, compares : SUBSET STRING, locals : SUBSET STRING]

\* shared: one direction for several names, or a range that is not constant.
Design == [named : BOOLEAN, shared : BOOLEAN, params : SUBSET STRING,
           blocks : Seq(Block), assigned : SUBSET STRING, indexes : SUBSET STRING]

\* What is compared of a port.
PortOf == [input : BOOLEAN, width : Nat]

ASSUME ChecksAssumption ==
    /\ \A k \in Contracts :
          /\ k.reset \in {"none", "sync", "async"} /\ k.sequential \in BOOLEAN
          /\ k.clocks \subseteq STRING /\ IsFiniteSet(k.clocks)
          /\ k.dangling \in BOOLEAN
          /\ k.ports \in [DOMAIN k.ports -> PortOf]
    /\ \A d \in Designs :
          /\ d.blocks \in Seq(Block)
          /\ d.ports \in [DOMAIN d.ports -> PortOf]

VARIABLES
    contract,    \* the interface contract
    candidate,   \* the RTL
    repaired,    \* it is a repair, looked at before it is verified
    look,        \* what the checks made of it
    violations   \* what Gate 1 holds against it

checksVars == <<contract, candidate, repaired, look, violations>>

ClockName(k) == IF k.clock = NoClock THEN "clk" ELSE k.clock

\* The text of a design, and what is left of it without comments.
Blocks(d) == {d.blocks[i] : i \in DOMAIN d.blocks}
Headers(d) == {b.header : b \in Blocks(d)}
LiveHeaders(d) == {b.header : b \in {c \in Blocks(d) : ~c.comment}}

-----------------------------------------------------------------------------
(***************************************************************************)
(* Before the verification.                                                *)
(***************************************************************************)

\* Either edge of the clock, and the reset after an or before the list ends.
ListsReset(h, k) == h.clk = ClockName(k) /\ h.reset \in {"or", "longer"}

\* A mutant: a contract without a clock is not told apart.
SensitivityMismatchClockless(d, k) ==
    LET listed == \E h \in LiveHeaders(d) : ListsReset(h, k)
    IN  (k.reset = "sync" /\ listed) \/ (k.reset = "async" /\ ~listed)

SensitivityMismatch(d, k) ==
    LET listed == \E h \in LiveHeaders(d) : ListsReset(h, k)
    IN  \/ k.reset = "sync" /\ listed
        \/ k.reset = "async" /\ k.clock # NoClock /\ ~listed

\* What the repair prompt asks for.
RequiredHeader(k) ==
    [clk |-> ClockName(k), right |-> TRUE,
     reset |-> IF k.reset = "async" THEN "or" ELSE "none", wrapped |-> FALSE]

\* The span of a block runs from the next begin to its end; a block without
\* one takes that of the block after it.
Span(bs, i) ==
    LET from == {j \in DOMAIN bs : j >= i /\ bs[j].begins /\ ~bs[j].comment}
    IN  {j \in from : \A m \in from : j <= m}

\* What looks like an assignment in a span; it ends early at a name that ends
\* in "end".
Driven(b) == (b.drives \cup b.compares) \ b.locals

\* The number of spans a net is driven in.
Procedural(d, net) ==
    {i \in DOMAIN d.blocks :
        ~d.blocks[i].comment /\ \E j \in Span(d.blocks, i) : net \in Driven(d.blocks[j])}

\* A mutant: the nets a block declares are not left out.
MultidrivenNetsAll(d) ==
    {net \in d.assigned \cup d.indexes :
        \E i \in DOMAIN d.blocks :
            ~d.blocks[i].comment /\ \E j \in Span(d.blocks, i) :
                net \in d.blocks[j].drives \cup d.blocks[j].compares}

MultidrivenNets(d) ==
    {net \in d.assigned \cup d.indexes : Procedural(d, net) # {}}

Precheck(d, k) ==
    IF SensitivityMismatch(d, k) THEN "REPAIR_SENSITIVITY_MISMATCH"
    ELSE IF MultidrivenNets(d) # {} THEN "REPAIR_MULTIDRIVEN"
    ELSE "verified"

-----------------------------------------------------------------------------
(***************************************************************************)
(* Gate 1.  The text is searched with its comments.                        *)
(***************************************************************************)
InterfaceViolations(d, k) ==
    LET both == DOMAIN k.ports \cap DOMAIN d.ports
    IN  (IF d.named THEN {} ELSE {<<"name", "">>})
        \cup {<<"missing", p>> : p \in DOMAIN k.ports \ DOMAIN d.ports}
        \cup {<<"direction", p>> : p \in {q \in both : k.ports[q].input # d.ports[q].input}}
        \cup {<<"width", p>> : p \in {q \in both : k.ports[q].width # d.ports[q].width}}
        \cup {<<"unexpected", p>> : p \in DOMAIN d.ports \ DOMAIN k.ports}
        \cup {<<"missing parameter", p>> : p \in k.params \ d.params}
        \cup {<<"unexpected parameter", p>> : p \in d.params \ k.params}

\* A mutant: an edge of any clock will do.
ClockViolationsAny(d, k) ==
    IF k.clock # NoClock /\ k.sequential /\ ~\E h \in Headers(d) : h.right
    THEN {<<"no sequential block", k.clock>>} ELSE {}

ClockViolations(d, k) ==
    IF k.clock = NoClock THEN {}
    ELSE IF k.clock \notin DOMAIN k.ports THEN {<<"clock not a port", k.clock>>}
    ELSE IF k.sequential /\ ~\E h \in Headers(d) : h.clk = k.clock /\ h.right
    THEN {<<"no sequential block", k.clock>>} ELSE {}

\* Properties with two clocks ask for a block for each.
MultiClockViolations(d, k) ==
    LET clocks == {c \in k.clocks \cap DOMAIN k.ports : k.ports[c].input}
    IN  IF \A a, b \in clocks : a = b THEN {}
        ELSE {<<"no block for clock", c>> :
                 c \in {e \in clocks : ~\E h \in Headers(d) : h.clk = e}}

\* On one line the search for the reset runs past the end of the list, and the
\* clock is any name that begins like the contract's.
FindsReset(h, k) ==
    /\ h.clk = k.clock \/ <<k.clock, h.clk>> \in Longer
    /\ h.right /\ h.reset \in {"or", "longer", "remark"} /\ ~h.wrapped

\* That the reset is used cannot be missed: the port's declaration names it.
ResetViolations(d, k) ==
    IF k.reset = "none" THEN {}
    ELSE IF "rst" \notin DOMAIN k.ports THEN {<<"reset not a port", "rst">>}
    ELSE (IF k.reset = "sync" /\ \E h \in Headers(d) : ListsReset(h, k)
          THEN {<<"reset listed", "rst">>} ELSE {})
         \cup (IF /\ k.reset = "async" /\ k.clock # NoClock
                  /\ ~\E h \in Headers(d) : FindsReset(h, k)
               THEN {<<"reset not listed", "rst">>} ELSE {})

\* A property names a clock or reset that the contract does not have.
ReferenceViolations(k) == IF k.dangling THEN {<<"reference", "">>} ELSE {}

Validate(d, k) ==
    IF d.shared THEN {<<"unparsed", "">>}
    ELSE InterfaceViolations(d, k) \cup ClockViolations(d, k)
         \cup MultiClockViolations(d, k) \cup ResetViolations(d, k)
         \cup ReferenceViolations(k)

-----------------------------------------------------------------------------
ChecksInit ==
    /\ contract \in Contracts /\ candidate \in Designs
    /\ repaired \in BOOLEAN
    /\ look = "none" /\ violations = {}

LookBefore ==
    /\ repaired /\ look = "none"
    /\ look' = Precheck(candidate, contract)
    /\ UNCHANGED <<contract, candidate, repaired, violations>>

Gate1 ==
    /\ look = IF repaired THEN "verified" ELSE "none"
    /\ look' = "judged"
    /\ violations' = Validate(candidate, contract)
    /\ UNCHANGED <<contract, candidate, repaired>>

ChecksNext == LookBefore \/ Gate1

ChecksSpec == ChecksInit /\ [][ChecksNext]_checksVars

-----------------------------------------------------------------------------
(***************************************************************************)
(* Properties.                                                             *)
(***************************************************************************)

\* The text has nothing that the two searches read differently: a commented
\* block, a remark that names the reset, a list over two lines, the other
\* edge, a clock that begins like the contract's.
Readable(d, k) ==
    /\ \A b \in Blocks(d) : ~b.comment
    /\ \A h \in Headers(d) :
          /\ h.reset # "remark"
          /\ h.reset \in {"or", "longer"} =>
                h.right /\ ~h.wrapped /\ <<k.clock, h.clk>> \notin Longer

\* The check before the verification and Gate 1 agree on the reset, as the
\* comment on it says ("never disagrees with the gate"): a repair is turned
\* away exactly when Gate 1 would turn it away for its sensitivity list.  And
\* the header it is told to use, used throughout, gets it past both.
PrecheckMirrorsGate ==
    look # "none" /\ "rst" \in DOMAIN contract.ports =>
        LET held == ResetViolations(candidate, contract)
        IN  /\ Readable(candidate, contract) =>
                  (SensitivityMismatch(candidate, contract) <=> held # {})
            /\ /\ candidate.blocks # <<>>
               /\ Headers(candidate) = {RequiredHeader(contract)}
               /\ \A b \in Blocks(candidate) : ~b.comment
               => ~SensitivityMismatch(candidate, contract) /\ held = {}

\* What Gate 1 lets through has the contract's interface and its reset
\* discipline, unless a comment or a remark stands in for the code, a longer
\* name for the reset's, or the reset follows a comma.  Of an asynchronous
\* reset one list is looked for, not each of them.
CleanIsCompatible ==
    look = "judged" /\ violations = {} =>
        /\ candidate.named /\ candidate.ports = contract.ports
        /\ candidate.params = contract.params
        /\ Readable(candidate, contract) =>
              /\ contract.clock # NoClock /\ contract.sequential =>
                    \E h \in LiveHeaders(candidate) : h.clk = contract.clock /\ h.right
              /\ contract.clock # NoClock /\ contract.reset = "async" =>
                    \E h \in LiveHeaders(candidate) : 
                        /\ h.clk = contract.clock
                        /\ h.reset \in {"or", "longer"}
              /\ contract.reset = "sync" =>
                    \A h \in LiveHeaders(candidate) :
                        h.clk = ClockName(contract) => h.reset \in {"none", "comma"}

\* A repair that is turned away for its drivers has a net with both kinds, and
\* one that has is turned away: it is sent back without a verification, with
\* no bound on how often.  Told apart wrongly are an index of an assigned net
\* and a comparison by <=; missed are a driver behind a name that ends in
\* "end" and in a block without begin.
AssignedInBlock(d, net) ==
    \E b \in Blocks(d) : ~b.comment /\ net \in (b.drives \cup b.late) \ b.locals

MultidrivenIsReal ==
    /\ look = "REPAIR_MULTIDRIVEN" => \A net \in MultidrivenNets(candidate) :
          \/ net \in candidate.assigned /\ AssignedInBlock(candidate, net)
          \/ net \in candidate.indexes
          \/ \E b \in Blocks(candidate) : net \in b.compares
    /\ repaired /\ look \in {"verified", "judged"} =>
          \A net \in candidate.assigned, b \in Blocks(candidate) :
              b.begins /\ ~b.comment => net \notin b.drives \ b.locals
=============================================================================
