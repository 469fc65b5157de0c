------------------------------ MODULE MCGates ------------------------------
(***************************************************************************)
(* Around the gates of MCSignoffVerifier: what the third of them           *)
(* simulates, how the RTL they judge is read from a model's answer, what   *)
(* its text is searched for before a tool runs, and how a tool is called   *)
(* on a remote host.  A behaviour is one of one of the five.               *)
(***************************************************************************)
EXTENDS MCSignoffVerifier, VerilatorStimulus, ResponseParser, StructuralChecks,
        RemoteRunner

VARIABLE part   \* what a behaviour is about

\* ResponseParser: short answers.
Short == {<<>>} \cup {<<x>> : x \in Pieces \ {"broken"}}
Some == Short \cup { <<"comment", "module">>, <<"prose", "module">>, <<"module", "module">>,
    <<"module", "prose">>, <<"header", "module">>, <<"header", "words">>, <<"words", "module">> }
Fenced(b, f, a) == [before |-> b, fenced |-> TRUE, fence |-> f, after |-> a, braced |-> FALSE]
Bare(b) == [before |-> b, fenced |-> FALSE, fence |-> <<>>, after |-> <<>>, braced |-> FALSE]
Strings(texts) == [is : {"absent", "other"}, text : {<<>>}] \cup [is : {"string"}, text : texts]
AnswerTexts ==
    LET plain == {Bare(b) : b \in Some}
                 \cup {Fenced(b, f, a) : b \in Some, f \in Some, a \in {<<>>, <<"module">>}}
    IN  plain \cup {[p EXCEPT !.braced = TRUE] :
                       p \in {q \in plain : q.before # <<>> /\ q.before[1] = "prose"}}
\* Objects of which the patch matters little, and little else than the patch.
AnswerObjects ==
    LET known == {Bare(<<"escaped">>), Fenced(<<"module">>, <<"prose">>, <<>>),
                  Fenced(<<"prose">>, <<"module">>, <<>>)}
    IN  [impl : Strings({<<>>, <<"escaped">>, <<"header">>, <<"string">>, <<"words">>}),
         elements : BOOLEAN, named : BOOLEAN, recovers : BOOLEAN, known : known,
         patch : Strings({<<"module">>}), says : {{}}, line : {"inside"}, context : {"none"}]
        \cup
        [impl : [is : {"absent"}, text : {<<>>}], elements : {FALSE}, named : BOOLEAN,
         recovers : BOOLEAN, known : {Bare(<<"escaped">>)},
         patch : Strings({<<>>, <<"module">>, <<"header">>, <<"prose">>, <<"end">>}),
         says : SUBSET Words, line : Places, context : {"none", "inside", "header", "all"}]
ModelAnswers ==
    {[kind |-> "action", content |-> t] : t \in Some}
    \cup {[kind |-> "text", text |-> p] : p \in AnswerTexts}
    \cup {[kind |-> "object", object |-> o] : o \in AnswerObjects}

\* StructuralChecks: contracts, and designs of up to two blocks.
PlainHead == [clk |-> "clk", right |-> TRUE, reset |-> "none", wrapped |-> FALSE]
ResetHead == [PlainHead EXCEPT !.reset = "or"]
HeadSet ==
    {[PlainHead EXCEPT !.reset = x] : x \in {"none", "or", "longer", "comma", "remark"}}
    \cup { [ResetHead EXCEPT !.right = FALSE], [ResetHead EXCEPT !.wrapped = TRUE],
           [ResetHead EXCEPT !.clk = "clk2"], [PlainHead EXCEPT !.clk = "clk2"] }
PlainBlock == [header |-> PlainHead, comment |-> FALSE, begins |-> TRUE, drives |-> {"q"},
          late |-> {}, compares |-> {}, locals |-> {}]
BlockSet ==
    {[PlainBlock EXCEPT !.header = h, !.comment = c] : h \in HeadSet, c \in BOOLEAN}
    \cup { [PlainBlock EXCEPT !.begins = FALSE], [PlainBlock EXCEPT !.locals = {"q"}],
           [PlainBlock EXCEPT !.drives = {}, !.late = {"q"}],
           [PlainBlock EXCEPT !.drives = {"p"}, !.compares = {"q"}] }
BlockLists == {<<>>} \cup {<<x>> : x \in BlockSet} \cup {<<x, y>> : x, y \in BlockSet}
Port(input, width) == [input |-> input, width |-> width]
Ports == [clk |-> Port(TRUE, 1), rst |-> Port(TRUE, 1), q |-> Port(FALSE, 2)]
Ports2 == [clk |-> Port(TRUE, 1), clk2 |-> Port(TRUE, 1), q |-> Port(FALSE, 2)]
PlainDesign == [named |-> TRUE, shared |-> FALSE, ports |-> Ports, params |-> {},
               blocks |-> <<PlainBlock>>, assigned |-> {}, indexes |-> {}]
CandidateSet ==
    {[PlainDesign EXCEPT !.blocks = bs, !.assigned = a] :
        bs \in BlockLists, a \in {{}, {"q"}}}
    \cup {[PlainDesign EXCEPT !.blocks = <<b>>, !.assigned = {"p"}, !.indexes = {"q"}] : b \in BlockSet}
    \cup { [PlainDesign EXCEPT !.named = FALSE], [PlainDesign EXCEPT !.shared = TRUE],
           [PlainDesign EXCEPT !.params = {"W"}], [PlainDesign EXCEPT !.ports = Ports2],
           [PlainDesign EXCEPT !.ports.q.width = 1], [PlainDesign EXCEPT !.ports.q.input = TRUE] }
ContractSet ==
    [ports : {Ports}, params : {{}}, clock : {"clk", NoClock}, reset : {"none", "sync", "async"},
     sequential : BOOLEAN, clocks : {{"clk"}}, dangling : {FALSE}]
    \cup [ports : {Ports2}, params : {{"W"}}, clock : {"clk"}, reset : {"none", "sync"},
          sequential : {TRUE}, clocks : {{"clk", "clk2"}}, dangling : BOOLEAN]
Beginnings == {<<"clk", "clk2">>}

-----------------------------------------------------------------------------
gatesVars == <<part, vars, stimulusVars, parserVars, checksVars, remoteVars>>

\* What a behaviour is not about starts from one state.
GatesInit ==
    /\ part \in {"gates", "stimulus", "answer", "text", "remote"}
    /\ Init
    /\ part # "gates" =>
          /\ config = Live /\ rtl = good
          /\ files.ast = good /\ files.coverage = NoRtl /\ files.crux.of = NoRtl
    /\ StimulusInit
    /\ part # "stimulus" => clocked /\ resets
    /\ \/ part = "answer" /\ ParserInit
       \/ /\ part # "answer"
          /\ answer = [kind |-> "action", content |-> <<>>] /\ mode = "strict"
          /\ base = [given |-> FALSE, says |-> {}]
          /\ code = Rejected
    /\ \/ part = "text" /\ ChecksInit
       \/ /\ part # "text"
          /\ candidate = PlainDesign /\ repaired = FALSE /\ look = "none" /\ violations = {}
          /\ contract = [ports |-> Ports, params |-> {}, clock |-> "clk", reset |-> "none",
                         sequential |-> FALSE, clocks |-> {"clk"}, dangling |-> FALSE]
    /\ RemoteInit

GatesNext ==
    /\ UNCHANGED part
    /\ \/ /\ part = "gates" /\ Next
          /\ UNCHANGED <<stimulusVars, parserVars, checksVars, remoteVars>>
       \/ /\ part = "stimulus" /\ StimulusNext
          /\ UNCHANGED <<vars, parserVars, checksVars, remoteVars>>
       \/ /\ part = "answer" /\ ParserNext
          /\ UNCHANGED <<vars, stimulusVars, checksVars, remoteVars>>
       \/ /\ part = "text" /\ ChecksNext
          /\ UNCHANGED <<vars, stimulusVars, parserVars, remoteVars>>
       \/ /\ part = "remote" /\ RemoteNext
          /\ UNCHANGED <<vars, stimulusVars, parserVars, checksVars>>

GatesSpec == GatesInit /\ [][GatesNext]_gatesVars
=============================================================================
