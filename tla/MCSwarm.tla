------------------------------- MODULE MCSwarm -------------------------------
(* Programs of src/VM/testPrograms for TLC. *)
EXTENDS Swarm

CONSTANT Threshold

(* barrier.txt, for Threshold robots. *)
Barrier == <<
    <<"call_c_closure", "random_sleep">>,
    <<"push i", 1>>,
    <<"store stig", "barrier">>,
    <<"push i", 0>>,
    <<"load", "wait">>,
    <<"call_closure">>,
    <<"spin">>,
    <<"define_closure", "wait", <<>>, <<"barrier">>>>,
    <<"stig_size", "barrier">>,
    <<"debug_print", "Size of barrier:">>,
    <<"print">>,
    <<"push i", Threshold>>,
    <<"gt">>,
    <<"jmp_if_not_zero", "return">>,
    <<"debug_print", "Continuing!">>,
    <<"call_c_closure", "go_forward">>,
    <<"end">>,
    <<"label", "return">>,
    <<"push i", 0>>,
    <<"ret_from_closure">> >>

(* A robot that stores and ends, as stigsize.txt. *)
Storer == <<
    <<"push i", 1>>,
    <<"store stig", "barrier">>,
    <<"end">> >>

(* A robot that stores the same value twice. *)
Updater == <<
    <<"push i", 1>>,
    <<"store stig", "barrier">>,
    <<"push i", 1>>,
    <<"store stig", "barrier">>,
    <<"end">> >>

(* What the compiler makes of Parser/testPrograms/stigtest.txt, with the   *)
(* map named barrier:                                                      *)
(*   (var map inert barrier) (set barrier 1)                               *)
(*   (var global inert sum) (set sum 0)                                    *)
(*   (foreach reactive (in x barrier) (set sum (+ x sum)))                 *)
(*   (spin)                                                                *)
(* The print of the sum is left out.                                       *)
Foreach(lambda, start, end) == <<
    <<"define_closure", lambda, <<>>, <<"barrier">>>>,
    <<"label", start>>,
    <<"is_iter_at_end", "barrier">>,
    <<"jmp_if_not_zero", end>>,
    <<"push_next_in_stig", "barrier">>,
    <<"store local", "x">>,
    <<"load", "x">>, <<"load", "sum">>, <<"add">>, <<"uncache">>,
    <<"store global", "sum">>, <<"push_nil">>, <<"pop">>,
    <<"jmp", start>>,
    <<"label", end>>,
    <<"push_nil">>, <<"push i", 1>>, <<"ret_from_closure">> >>

Declarations == <<
    <<"push_nil">>, <<"pop">>,
    <<"push i", 1>>, <<"uncache">>, <<"store stig", "barrier">>, <<"push_nil">>, <<"pop">>,
    <<"push_nil">>, <<"pop">>,
    <<"push i", 0>>, <<"uncache">>, <<"store global", "sum">>, <<"push_nil">>, <<"pop">> >>

Start(lambda) == << <<"push i", 0>>, <<"load", lambda>>, <<"call_closure">> >>

Summer ==
    Declarations \o Start("__lambda_2") \o << <<"pop">>, <<"spin">>, <<"end">> >>
        \o Foreach("__lambda_2", "iter_start_0", "iter_end_0")

(* The same with the foreach block written twice. *)
TwiceSummer ==
    Declarations
        \o Start("__lambda_2") \o << <<"pop">> >>
        \o Start("__lambda_4") \o << <<"pop">>, <<"spin">>, <<"end">> >>
        \o Foreach("__lambda_2", "iter_start_0", "iter_end_0")
        \o Foreach("__lambda_4", "iter_start_1", "iter_end_1")

Texts == [waiter |-> Barrier, storer |-> Storer, updater |-> Updater, summer |-> Summer, twice |-> TwiceSummer]

(* The closure bodies of these programs are apart. *)
ASSUME LayoutAssumption == \A p \in Program : BodiesAreApart(p)

(* Robot 1 runs the program in question, the others store and end. *)
With(p) == [r \in Robot |-> IF r = 1 THEN p ELSE "storer"]
EachProgram == {With("waiter"), With("summer"), [r \in Robot |-> "updater"]}
OnlyWaiter == {With("waiter")}
OnlyTwice == {With("twice")}

------------------------------------------------------------------------------
Counted(r) == Cardinality(DOMAIN EntriesOf(vm[r]))

(* Every store of the swarm will be sent to robot r, or has been. *)
ToldOfAll(r) == \A q \in Robot : stored[q] > 0 /\ r \in audience[q]

(* A robot at the barrier of barrier.txt that will be sent every store     *)
(* gets past it, or its program stops.  Both last once they hold, so that  *)
(* "again and again" says that the first leads to the second.              *)
BarrierOpens ==
    \A r \in Robot :
        []<>((vm[r].program = "waiter" /\ ToldOfAll(r)) => vm[r].state # "ready")

(* "Wait for 5 robots, then go" (barrier.txt:1): a robot that goes has     *)
(* counted as many as it waits for.                                        *)
BarrierHolds ==
    \A r \in Robot :
        (vm[r].program = "waiter" /\ vm[r].moved) => Counted(r) >= Threshold
==============================================================================
