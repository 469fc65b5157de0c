--------------------------- MODULE ResponseParser ---------------------------
(***************************************************************************)
(* How the driver reads SystemVerilog out of a model's answer              *)
(* (core/driver.py, _parse_model_code_response), in its two modes: strict, *)
(* which is the default, and lenient.                                      *)
(*                                                                         *)
(* An answer is cut into pieces, told apart by what the parser's tests see *)
(* of them.  What is not kept apart is the text of a piece.                *)
(***************************************************************************)
EXTENDS Naturals, Sequences

CONSTANT Answers   \* the answers a model may give

Pieces == {
    "module",    \* a module, from its declaration to endmodule
    "header",    \* a module that breaks off before endmodule
    "escaped",   \* a module whose line breaks are written \n
    "string",    \* a module with an escape in a string literal
    "broken",    \* the same with the escape taken literally
    "end",       \* the rest of a module, up to its endmodule
    "comment", "prose",
    "directive", \* a line that begins with a backtick, a fence is one
    "words" }    \* prose with the word module that ends in endmodule

Texts == Seq(Pieces)

\* Prose around a fenced block; braced says it begins with { and ends with }
\* and is not JSON.
Prose == [before : Texts, fenced : BOOLEAN, fence : Texts, after : Texts, braced : BOOLEAN]

\* The value of a key.
Value == [is : {"absent", "other", "string"}, text : Texts]

\* The two words whose presence is looked for.
Words == {"module", "endmodule"}

\* What a line or a passage of the current RTL holds of its module: nothing of
\* the RTL, neither end of the module, its declaration, its endmodule or both.
Places == {"none", "inside", "header", "end", "all"}

\* A JSON object: the first of the ten implementation keys; the structural
\* elements; whether its own name for the module is a string; the first of the
\* other known keys that holds the words; the patch, which is that of the key
\* replacement when the key patch is absent or empty, with the words that its
\* comments say; and the line and the passage it goes to.
Objects == [impl : Value, elements : BOOLEAN, named : BOOLEAN,
            recovers : BOOLEAN, known : Prose,
            patch : Value, says : SUBSET Words, line : Places, context : Places]

VARIABLES
    answer,    \* the model's answer
    mode,      \* parser_mode of the driver
    base,      \* base_code: whether it is supplied, which makes the answer one to
               \* a minimal-patch repair, and the words that its comments say
    code       \* what was read from the answer

parserVars == <<answer, mode, base, code>>

-----------------------------------------------------------------------------
\* What the module pattern can begin at, comments before it aside, and end at.
Heads == {"module", "header", "escaped", "string", "broken"}
Ends == {"module", "string", "broken", "words", "end"}
Before == {"comment", "directive"}

\* "module" in s and "endmodule" in s: the second has the first in it.
HasWords(t) == \E i \in DOMAIN t : t[i] \in Ends \cup {"escaped"}

\* Which of the two a text has as whole words, its comments aside: in escaped
\* text endmodule follows an n.
Has(t, pieces) == \E i \in DOMAIN t : t[i] \in pieces
WholeWords(t) ==
    {w \in Words : IF w = "module" THEN Has(t, Heads \cup {"words"}) ELSE Has(t, Ends)}

\* The pattern is found in t when an endmodule follows the first declaration.
HasBlock(t) == \E h, k \in DOMAIN t : h <= k /\ t[h] \in Heads /\ t[k] \in Ends

\* From the comments right before that declaration to the first endmodule.
FirstHead(t) == CHOOSE h \in DOMAIN t : t[h] \in Heads /\ \A j \in 1..(h - 1) : t[j] \notin Heads
FirstBlock(t) ==
    LET h == FirstHead(t)
        i == CHOOSE i \in 1..h :
                (\A j \in i..(h - 1) : t[j] \in Before) /\ (i > 1 => t[i - 1] \notin Before)
        k == CHOOSE k \in DOMAIN t :
                h <= k /\ t[k] \in Ends /\ \A j \in h..(k - 1) : t[j] \notin Ends
    IN  SubSeq(t, i, k)

\* fullmatch: anything may stand between the first declaration and the last
\* endmodule, other modules included.
FullMatch(t) ==
    /\ t # <<>> /\ t[Len(t)] \in Ends
    /\ \E h \in DOMAIN t : t[h] \in Heads /\ \A j \in 1..(h - 1) : t[j] \in Before

Unescape(t) ==
    [i \in DOMAIN t |-> CASE t[i] = "escaped" -> "module"
                          [] t[i] = "string" -> "broken"
                          [] OTHER -> t[i]]

\* The first declaration outside comments is given the contract's name.
Declares == Heads \cup {"words"}

ApplyNaming(t) ==
    [accepted |-> TRUE, text |-> t,
     named |-> IF \E i \in DOMAIN t : t[i] \in Declares
               THEN CHOOSE i \in DOMAIN t :
                       t[i] \in Declares /\ \A j \in 1..(i - 1) : t[j] \notin Declares
               ELSE 0]

\* ModelResponseParseError.
Rejected == [accepted |-> FALSE, text |-> <<>>, named |-> 0]

-----------------------------------------------------------------------------
\* A fence that opens the answer is stripped before anything else is looked at.
Mark == <<"directive">>
Whole(p) ==
    IF ~p.fenced THEN p.before
    ELSE p.before \o Mark \o p.fence \o Mark \o p.after
Sanitized(p) ==
    IF ~p.fenced \/ p.before # <<>> THEN Whole(p)
    ELSE IF p.after = <<>> THEN p.fence ELSE p.fence \o Mark \o p.after

\* A mutant: a fenced block is taken whatever it holds.
FenceTakenAny(p) == p.fenced

FenceTaken(p) == p.fenced /\ HasWords(p.fence)

\* The object is a structural tree: a body is put between a header made of the
\* declared ports and endmodule, whatever it says.
Wrapped(body) == IF Has(body, {"header"}) THEN <<"broken">> ELSE <<"module">>

IsTree(o) ==
    /\ o.named
    /\ o.impl.is # "other"
    /\ o.impl.is = "absent" => o.elements

FromTree(o) ==
    LET body == IF o.impl.is = "string" THEN Unescape(o.impl.text) ELSE <<>>
    IN  IF HasWords(body) THEN body ELSE Wrapped(body)

FromKnown(p) ==
    Unescape(IF ~p.fenced THEN p.before ELSE p.fence)

\* The words that are left of the RTL's own module around a place.
Left(place) ==
    Words \ CASE place = "header" -> {"module"}
              [] place = "end" -> {"endmodule"}
              [] place = "all" -> Words
              [] OTHER -> {}

\* A line or a passage of the current RTL is replaced, or all of it.  The two
\* words must be in what comes out, wherever and in whatever they are said:
\* in a comment of the RTL, too.  A patch of no text deletes what it replaces.
Said(o) == WholeWords(o.patch.text) \cup o.says
Fits(o, place, remarks) ==
    place # "none" /\ Words \subseteq Said(o) \cup remarks \cup Left(place)

Replaced(o, place) ==
    LET own == WholeWords(o.patch.text) \cup Left(place)
    IN  CASE Words \subseteq own -> <<"module">>
          [] own = {"module"} -> <<"header">>
          [] own = {"endmodule"} -> <<"end">>
          [] OTHER -> <<"prose">>

Patched(o, remarks) ==
    IF o.patch.is # "string" THEN Rejected
    ELSE IF Words \subseteq Said(o) THEN ApplyNaming(o.patch.text)
    ELSE IF Fits(o, o.line, remarks) THEN ApplyNaming(Replaced(o, o.line))
    ELSE IF Fits(o, o.context, remarks) THEN ApplyNaming(Replaced(o, o.context))
    ELSE Rejected

-----------------------------------------------------------------------------
\* The answers: braced ones begin with the brace, and a known key holds the
\* words.
ASSUME ParserAssumption ==
    \A r \in Answers :
       \/ r.kind = "action" /\ r.content \in Texts
       \/ /\ r.kind = "text" /\ r.text \in Prose
          /\ r.text.braced => r.text.before # <<>> /\ r.text.before[1] = "prose"
       \/ /\ r.kind = "object" /\ r.object \in Objects
          /\ r.object.recovers => HasWords(Whole(r.object.known))

-----------------------------------------------------------------------------
StrictObject(o, rtl) == IF rtl.given THEN Patched(o, rtl.says) ELSE Rejected

LenientObject(o, rtl) ==
    IF IsTree(o) THEN ApplyNaming(FromTree(o))
    ELSE IF o.recovers THEN ApplyNaming(FromKnown(o.known))
    ELSE IF rtl.given THEN Patched(o, rtl.says)
    ELSE Rejected

StrictText(p) ==
    IF ~p.braced /\ FenceTaken(p) THEN ApplyNaming(p.fence)
    ELSE IF FullMatch(Sanitized(p)) THEN ApplyNaming(Sanitized(p))
    ELSE Rejected

Leads(t) == t # <<>> /\ t[1] \in Heads \cup {"comment"}

\* A mutant: a module outside the fence goes before the fenced one.
LenientTextRawFirst(p) ==
    LET t == Sanitized(p)
    IN  IF Leads(t) /\ HasBlock(t) THEN ApplyNaming(FirstBlock(t))
        ELSE IF FenceTaken(p) THEN ApplyNaming(p.fence)
        ELSE IF HasBlock(Whole(p)) THEN ApplyNaming(FirstBlock(Whole(p)))
        ELSE Rejected

LenientText(p) ==
    LET t == Sanitized(p)
    IN  IF ~p.braced /\ FenceTaken(p) THEN ApplyNaming(p.fence)
        ELSE IF Leads(t) /\ HasBlock(t) THEN ApplyNaming(FirstBlock(t))
        ELSE IF FenceTaken(p) THEN ApplyNaming(p.fence)
        ELSE IF HasBlock(Whole(p)) THEN ApplyNaming(FirstBlock(Whole(p)))
        ELSE Rejected

Parse(r, parserMode, rtl) ==
    IF r.kind = "action" THEN ApplyNaming(r.content)
    ELSE IF r.kind = "object"
    THEN IF parserMode = "strict" THEN StrictObject(r.object, rtl)
         ELSE LenientObject(r.object, rtl)
    ELSE IF parserMode = "strict" THEN StrictText(r.text) ELSE LenientText(r.text)

-----------------------------------------------------------------------------
\* An answer to a first request or, with the current RTL, to a repair.
Bases == [given : {FALSE}, says : {{}}] \cup [given : {TRUE}, says : SUBSET Words]

ParserInit ==
    /\ answer \in Answers
    /\ mode \in {"strict", "lenient"}
    /\ base \in Bases
    /\ code = Rejected

ReadAnswer ==
    /\ code' = Parse(answer, mode, base)
    /\ UNCHANGED <<answer, mode, base>>

ParserNext == ReadAnswer

ParserSpec == ParserInit /\ [][ParserNext]_parserVars

-----------------------------------------------------------------------------
(***************************************************************************)
(* Properties.                                                             *)
(***************************************************************************)

Kinds(t) == {t[i] : i \in DOMAIN t}

\* Every piece of the answer that stands for a module is a whole one.
PlainPieces == {"module", "comment", "prose", "directive"}
PlainText(p) == Kinds(Whole(p)) \subseteq PlainPieces
Plain(r) ==
    IF r.kind = "object"
    THEN /\ r.object.impl.is = "string" => Kinds(r.object.impl.text) \subseteq PlainPieces
         /\ r.object.patch.is = "string" =>
               Kinds(r.object.patch.text) \subseteq PlainPieces /\ r.object.says = {}
         /\ r.object.recovers =>
               /\ PlainText(r.object.known)
               /\ r.object.known.fenced => HasWords(r.object.known.fence)
    ELSE r.kind = "text" /\ PlainText(r.text)

\* A patch without a module goes over the declaration or the end of the
\* current one, and a comment of the RTL says the word that is gone.
TakenForRemark(r) ==
    /\ r.kind = "object" /\ base.given
    /\ \E place \in {r.object.line, r.object.context} :
          ~(Words \subseteq Left(place)) /\ Words \subseteq base.says \cup Left(place)

\* What is accepted holds a module, and the contract's name is put on one.
\* The content of a file action is taken whatever it is, and an answer that is
\* cut off, escaped twice or that talks about module and endmodule can pass
\* for one; so can a key whose first fence is not the one with the module, and
\* what a patch leaves of an RTL whose comments say the words.
AcceptedHoldsModule ==
    code.accepted /\ Plain(answer) /\ ~TakenForRemark(answer) =>
        code.named \in DOMAIN code.text /\ code.text[code.named] = "module"

\* Lenient only adds to strict: what strict mode accepts lenient mode accepts
\* too, with the same code.  Three answers are read differently: a patch that
\* also has the keys of a documented shape; more than one endmodule outside a
\* fence, all of which the strict pattern spans and of which lenient mode
\* takes the first; and an answer that opens with a fence without a module,
\* from which strict mode has stripped the fence.
SeveralModules(t) == \E i, j \in DOMAIN t : i < j /\ t[i] \in Ends /\ t[j] \in Ends

ModesAgree ==
    /\ mode = "strict" /\ code.accepted
    /\ answer.kind = "object" => ~IsTree(answer.object) /\ ~answer.object.recovers
    /\ answer.kind = "text" =>
          /\ ~SeveralModules(Sanitized(answer.text))
          /\ Sanitized(answer.text) = Whole(answer.text) \/ FenceTaken(answer.text)
    => Parse(answer, "lenient", base) = code
=============================================================================
