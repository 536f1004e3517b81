------------------------------- MODULE Runner -------------------------------
(***************************************************************************)
(* primitives/src/runner: a program of the Manager's calls is parsed, run  *)
(* statement by statement on one Manager, and ends with an exit code.      *)
(*                                                                         *)
(* The parser checks each statement against the kinds that the statements  *)
(* before it gave their variables, and nothing after it.  So a program     *)
(* that parses is any sequence of statements each of which passes that     *)
(* check, and here it is chosen while it runs: one action is one statement *)
(* parsed and run.  A program that does not parse runs nothing.            *)
(***************************************************************************)
EXTENDS Manager

CONSTANTS
    Name,  \* variables of the program
    Size   \* sizes written in it

ASSUME RunnerAssumption == Size \subseteq Nat

VARIABLES
    kinds,   \* kinds_ of the parser; "None" is a name no argument may use
    vals,    \* Ctx::vals
    errors,  \* a statement has failed
    phase,   \* "init", "running", "ending", "done"
    code,    \* the exit code
    clean    \* the destructor reported no failure

program == <<kinds, vals>>
result == <<errors, phase, code, clean>>
runVars == <<vars, program, result>>

\* No call takes a location or a bool: a name that holds one is as good as undefined.
Kind == {"Addr", "Chunk", "Size"}
NoValue == [kind |-> "None", num |-> 0]

RunInit ==
    /\ Init
    /\ kinds = [n \in Name |-> "None"] /\ vals = [n \in Name |-> NoValue]
    /\ errors = FALSE /\ phase = "init" /\ code = 0 /\ clean = TRUE

-----------------------------------------------------------------------------
(* Manager() succeeds or throws; then nothing is run. *)
Construct ==
    /\ phase = "init"
    /\ \/ phase' = "running" /\ UNCHANGED code
       \/ phase' = "done" /\ code' = 1
    /\ UNCHANGED <<vars, program, errors, clean>>

\* An argument: the parser's use, and Ctx::get.
Uses(n, k) == kinds[n] = k
Has(n, k) == vals[n].kind = k
NoneHere(r) == r = Failed /\ UNCHANGED vars

\* Size literals and variables; an address may have an offset in map only.
SizeCall(Call(_), r) ==
    \/ \E n \in Size : Call(n)
    \/ \E n \in Name : /\ Uses(n, "Size")
                       /\ IF Has(n, "Size") THEN Call(vals[n].num) ELSE NoneHere(r)

ChunkCall(Call(_), r) ==
    \E c \in Name : /\ Uses(c, "Chunk")
                    /\ IF Has(c, "Chunk") THEN Call(vals[c].num) ELSE NoneHere(r)

MapCall(c, a, r) ==
    /\ Uses(c, "Chunk") /\ Uses(a, "Addr")
    /\ IF Has(c, "Chunk") /\ Has(a, "Addr")
       THEN \E off \in {0} \cup Size : Map(vals[c].num, vals[a].num + off, r)
       ELSE NoneHere(r)

FreeCall(a, r) ==
    Uses(a, "Addr") /\ IF Has(a, "Addr") THEN Free(vals[a].num, r) ELSE NoneHere(r)

\* pattern_call: granule g of chunk #i holds <<i, g>>; a kernel on an address the
\* device may not access breaks the context.
Pattern(i, v, n) == [a \in Cells(v, n) |-> <<i, a - v>>]

PatternCall(i, fill, r) ==
    IF i \notin Live \/ chunks[i].va = 0 THEN Refused(r)
    ELSE LET v == chunks[i].va
             n == chunks[i].size
         IN  /\ UNCHANGED records
             /\ \/ /\ r = Failed /\ UNCHANGED <<driver, faults>>
                   /\ ~Accessible(driver, v, n) /\ broken' = TRUE
                \/ r = Failed /\ Fault /\ UNCHANGED driver
                \/ /\ Accessible(driver, v, n) /\ Quiet
                   /\ IF fill THEN driver' = Written(driver, v, n, Pattern(i, v, n)) /\ r = 0
                      ELSE /\ UNCHANGED driver
                           /\ r = IF \A a \in Cells(v, n) : Read(driver, a) = Pattern(i, v, n)[a]
                                  THEN 0 ELSE Failed

-----------------------------------------------------------------------------
(* CALLS: which calls give which kind of result. *)
Run(k, r) ==
    \/ /\ k = "Addr"
       /\ \/ SizeCall(LAMBDA n : Reserve(n, r), r)
          \/ \E c, a \in Name : MapCall(c, a, r)
          \/ ChunkCall(LAMBDA i : Unmap(i, r), r)
          \/ \E l \in Loc : ChunkCall(LAMBDA i : Remap(i, l, r), r)
          \/ ChunkCall(LAMBDA i : Address(i, r), r)
    \/ k = "Chunk" /\ \E l \in Loc : SizeCall(LAMBDA n : Create(n, l, r), r)
    \/ /\ k = "Size"
       /\ \/ ChunkCall(LAMBDA i : Release(i, r), r)
          \/ \E a \in Name : FreeCall(a, r)
          \/ r = 1 /\ UNCHANGED vars               \* granularity
    \/ k = "None" /\ ChunkCall(LAMBDA i : Lookup(i, r), r)   \* loc, on_device

\* Calls whose result cannot be assigned; info is a Lookup, print_state and sleep do nothing.
Act(r) == \E fill \in BOOLEAN : ChunkCall(LAMBDA i : PatternCall(i, fill, r), r)

\* A likely slip: a failed statement leaves its variable alone.
AssignedIfOk(dst, k, r) == IF r = Failed THEN vals ELSE [vals EXCEPT ![dst] = [kind |-> k, num |-> r]]

\* execute: the variable's new value, none if the statement failed.
Assigned(dst, k, r) ==
    [vals EXCEPT ![dst] = IF r = Failed \/ k = "None" THEN NoValue ELSE [kind |-> k, num |-> r]]

\* Parser::stmt: after the arguments, so x = f(x) takes the old x.
Declared(dst, k) == [kinds EXCEPT ![dst] = k]

Result == {Failed, 0} \cup Va \cup Id \cup Size

\* Once the context is broken the rest is skipped.
Statement ==
    /\ phase = "running" /\ ~broken
    /\ \E r \in Result :
          /\ \/ Act(r) /\ UNCHANGED program
             \/ \E k \in Kind \cup {"None"} :
                  /\ Run(k, r)
                  /\ \/ UNCHANGED program
                     \/ \E dst \in Name : /\ kinds' = Declared(dst, k)
                                          /\ vals' = Assigned(dst, k, r)
          /\ errors' = (errors \/ r = Failed)
    /\ UNCHANGED <<phase, code, clean>>

\* m.reset(), one chunk or range at a time, and the exit code.  In a broken context the
\* destructor fails if only at its stream.
Shutdown ==
    /\ phase = "running" /\ phase' = "ending"
    /\ kinds' = [n \in Name |-> "None"] /\ vals' = [n \in Name |-> NoValue]
    /\ clean' = ~broken
    /\ UNCHANGED <<vars, errors, code>>

CleanUp ==
    /\ phase = "ending" /\ ~Emptied
    /\ \E ok \in BOOLEAN : Destroy(ok) /\ clean' = (clean /\ ok)
    /\ UNCHANGED <<program, errors, phase, code>>

End ==
    /\ phase = "ending" /\ Emptied
    /\ phase' = "done" /\ code' = IF errors THEN 1 ELSE 0
    /\ UNCHANGED <<vars, program, errors, clean>>

RunNext == Construct \/ Statement \/ Shutdown \/ CleanUp \/ End

RunSpec == RunInit /\ [][RunNext]_runVars

-----------------------------------------------------------------------------
(* What the parser says of a variable is what the program finds in it: a   *)
(* value of that kind, or none, because the statement that set it failed.  *)
KindsAgree == \A n \in Name : vals[n].kind \in {kinds[n], "None"}

(* Type invariant of a running program: the Manager's types, and each      *)
(* variable's value of the kind that the parser checked its uses for.      *)
RunTypeOK == TypeOK /\ KindsAgree

(* A variable that names a released chunk stays stale: no later chunk is   *)
(* taken for it.                                                           *)
Stale(n) == vals[n].kind = "Chunk" /\ chunks[vals[n].num] = NoChunk

StaleStays == [][\A n \in Name :
    Stale(n) /\ vals'[n] = vals[n] => chunks'[vals[n].num] = NoChunk]_runVars

(* A filled chunk stays so under every later statement, fill of another    *)
(* chunk included, until it is released, while no driver call fails.       *)
Filled(i) == \A g \in 1 .. chunks[i].size : driver.memory[chunks[i].h].data[g] = <<i, g - 1>>

ContentsKept == [][faults' = 0 =>
    \A i \in Live : Filled(i) /\ chunks'[i] # NoChunk => Filled(i)']_runVars

(* README: exit code 0 is clean.  When the destructor reports nothing      *)
(* either, nothing is left with the driver, whatever failed on the way.    *)
CleanExit == phase = "done" /\ code = 0 /\ clean => driver = Nothing
=============================================================================
