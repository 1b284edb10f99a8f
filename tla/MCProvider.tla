----------------------------- MODULE MCProvider -----------------------------
(* ProviderProcess with one diagnostic stream, pipes of two bytes, a request   *)
(* and a talkative leader that fill them, a stream limit of one byte, a result *)
(* limit of two, and a frame beyond it whose admissible prefix can be read.    *)
EXTENDS ProviderProcess

CONSTANTS leader, k1

MCKids == {k1}
MCDiagnostics == {"stderr"}
Tiny == [size |-> 1, readable |-> {1}]
Short == [size |-> 2, readable |-> {2}]
Long == [size |-> 4, readable |-> {2, 4}]

Run(command, diligent, frame, noise, stubborn, closing) ==
    [command |-> command, diligent |-> diligent, size |-> frame.size,
     readable |-> frame.readable, talk |-> noise[1], chatter |-> noise[2],
     stubborn |-> stubborn, closing |-> closing]

(* A Python worker; a command whose descendant lets go of its streams and      *)
(* ignores SIGTERM; a frame too long; a stubborn leader; one that does not     *)
(* read its request; one with a descendant that keeps streams.                 *)
MCJobs ==
    {Run(FALSE, TRUE, Short, <<3, 1>>, {}, {}),
     Run(TRUE, TRUE, Short, <<2, 1>>, {k1}, {"result", "stderr"}),
     Run(TRUE, TRUE, Long, <<2, 0>>, {}, {"result"}),
     Run(TRUE, FALSE, Tiny, <<0, 0>>, {leader}, {"result"}),
     Run(TRUE, FALSE, Tiny, <<0, 0>>, {}, {"request"}),
     Run(FALSE, FALSE, Tiny, <<0, 0>>, {k1}, {"result", "stderr"})}

=============================================================================
