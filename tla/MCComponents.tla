---- MODULE MCComponents ----
(* The components that meet the pipeline only through files and reports, each  *)
(* checked on its own: a behaviour is one of one of them.                      *)
EXTENDS CdcChecker, FormalHarness, EvidenceRelease, TraceChain

VARIABLE part   \* the component a behaviour is about

(* CdcChecker: designs of up to MaxSize statements out of these. *)
St(l, c, r, sep, cd, rhs) ==
    [lhs |-> l, clk |-> c, rst |-> r, sep |-> sep, cond |-> cd, rhs |-> rhs, loop |-> FALSE]
Reg(l, c, rhs) == St(l, c, "", "", {}, rhs)
DesignStatements == {
    Reg("a", "ca", {"d"}), Reg("w", "ca", {"d"}), Reg("rst_q", "ca", {"d"}),
    Reg("fifo_p", "ca", {"d"}),
    St("a", "ca", "rst", "or", {}, {"d"}), St("a", "ca", "rst", ",", {}, {"d"}),
    Reg("s", "cb", {"a"}), Reg("s", "cb", {"w"}), Reg("s", "cb", {"c"}), Reg("s", "cb", {"rst_q"}),
    St("s", "cb", "rst", "or", {}, {"a"}), St("s", "cb", "", "", {"a"}, {"d"}),
    St("s", "cb", "", "", {"rst"}, {"a"}), Reg("s", "cb", {"a", "s"}),
    Reg("c", NoClock, {"a"}), Reg("c", NoClock, {"a", "d"}), Reg("c", NoClock, {"u"}),
    Reg("t", "cb", {"s"}), Reg("t", "cb", {"s", "d"}), Reg("t", "cb", {"a"}), Reg("t", "cb", {"s", "z"}),
    Reg("z", "cb", {"d"}), Reg("z", "cb", {"t"}), Reg("z", "cb", {"s"}),
    [Reg("z", "cb", {"d"}) EXCEPT !.loop = TRUE] }
Order == <<"a", "c", "d", "fifo_p", "rst", "rst_q", "s", "t", "u", "w", "z">>

(* FormalHarness: the clauses a contract may declare, and its reset. *)
Is(s) == [sig |-> s, neg |-> FALSE]
Isnt(s) == [sig |-> s, neg |-> TRUE]
Cl(f, l, r) == [form |-> f, left |-> l, right |-> r, disable |-> "none", hint |-> FALSE]
DeclaredClauses ==
    LET same == Cl("same", <<Is("a")>>, <<Is("b")>>)
        next == Cl("next", <<Is("a")>>, <<Is("b")>>)
        past == Cl("past", <<Is("a")>>, <<Is("b")>>)
        stable == Cl("stable", <<>>, <<Is("b")>>)
    IN { same, [same EXCEPT !.disable = "reset"], [same EXCEPT !.disable = "compound"],
         [same EXCEPT !.hint = TRUE], next, [next EXCEPT !.disable = "reset"],
         past, [past EXCEPT !.disable = "reset"], stable, [stable EXCEPT !.hint = TRUE],
         Cl("same", <<Is("rst")>>, <<Isnt("b")>>), Cl("same", <<Isnt("rst")>>, <<Isnt("b")>>),
         [Cl("same", <<Isnt("rst")>>, <<Isnt("b")>>) EXCEPT !.disable = "reset"],
         Cl("next", <<Isnt("rst")>>, <<Isnt("b")>>), Cl("same", <<Is("a"), Is("b")>>, <<Is("a"), Is("b")>>),
         Cl("or", <<Is("a")>>, <<Is("b")>>), Cl("or", <<Is("a")>>, <<Isnt("a")>>),
         Cl("or", <<Is("a"), Is("b")>>, <<Isnt("a"), Is("b")>>), Cl("or", <<Is("a"), Is("b")>>, <<Isnt("a")>>),
         Cl("eq", <<Is("a"), Is("b")>>, <<Is("a"), Is("b")>>), Cl("eq", <<Is("a")>>, <<Is("a")>>),
         Cl("or", <<Isnt("b == a")>>, <<Is("b == a")>>), Cl("delayed", <<Is("a")>>, <<Is("b")>>),
         Cl("or", <<Isnt("rst")>>, <<Is("b")>>), Cl("or", <<Isnt("a")>>, <<Is("a"), Is("b")>>) }
ResetPort(l, name, listed, says, n) ==
    [low |-> l, name |-> name, listed |-> listed, says |-> says, inside |-> n]
DeclaredResets == {
    ResetPort(TRUE, "ends in _n", TRUE, FALSE, {}),        \* rst_n
    ResetPort(FALSE, "other", TRUE, FALSE, {}),            \* rst
    ResetPort(TRUE, "contains resetn", TRUE, FALSE, {}),   \* resetn
    ResetPort(TRUE, "contains resetn", TRUE, TRUE, {}),    \* resetn, said to be active low
    ResetPort(TRUE, "other", TRUE, TRUE, {}),              \* reset, said to be active low
    ResetPort(TRUE, "contains _n", FALSE, FALSE, {}),      \* rst_ni
    ResetPort(FALSE, "other", TRUE, FALSE, {"a"}) }        \* rst, beside a signal a_rst

(* EvidenceRelease: two versions of the tasks file, and what an export asks for. *)
TaskVersions == [v1 |-> <<"t1">>, v2 |-> <<"t2", "t1">>]
AskedFor == { [tasks |-> 0, functional |-> 7000, verified |-> 4000],     \* too few tasks
              [tasks |-> 2, functional |-> 5000, verified |-> 5000] }   \* more tasks, a lower rate

-----------------------------------------------------------------------------
allVars == <<part, cdcVars, harnessVars, releaseVars, chainVars>>

Parts == {"cdc", "harness", "release", "chain"}

ComponentsInit ==
    /\ part \in Parts
    /\ CdcInit /\ HarnessInit /\ ReleaseInit /\ ChainInit

ComponentsNext ==
    /\ UNCHANGED part
    /\ \/ /\ part = "cdc" /\ CdcNext
          /\ UNCHANGED <<harnessVars, releaseVars, chainVars>>
       \/ /\ part = "harness" /\ HarnessNext
          /\ UNCHANGED <<cdcVars, releaseVars, chainVars>>
       \/ /\ part = "release" /\ ReleaseNext
          /\ UNCHANGED <<cdcVars, harnessVars, chainVars>>
       \/ /\ part = "chain" /\ ChainNext
          /\ UNCHANGED <<cdcVars, harnessVars, releaseVars>>

ComponentsSpec == ComponentsInit /\ [][ComponentsNext]_allVars
====
