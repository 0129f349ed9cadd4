----------------------------- MODULE MCCommand -----------------------------
(***************************************************************************)
(* Machines and arguments for Command.  u32 is 30 bits wide here and a     *)
(* chunk 2^26 edges, which keeps every size within TLC's integers; C30 is  *)
(* the largest graph, as C32 is the program's.                             *)
(***************************************************************************)
EXTENDS Command

Pc == [metal |-> "absent", adapter |-> "ok", diagnostics |-> FALSE,
       bufferWords |-> 2^29, localWords |-> 8192, memory |-> "unknown"]

Mac == [Pc EXCEPT !.metal = "ok", !.memory = "large"]

Machines == {
    Pc, Mac,
    [Pc EXCEPT !.memory = "small"],
    [Pc EXCEPT !.bufferWords = 2^25],                        \* 128 MiB buffers
    [Pc EXCEPT !.bufferWords = 2^20],                        \* and 4 MiB
    [Pc EXCEPT !.localWords = 16384, !.memory = "large"],    \* 64 KiB of storage
    [Pc EXCEPT !.localWords = 12288],                        \* 48 KiB
    [Pc EXCEPT !.adapter = "none"],
    [Mac EXCEPT !.metal = "broken"],
    [Pc EXCEPT !.diagnostics = TRUE]}

Defaults == [command |-> "gate", backend |-> "auto", edgeBits |-> 30, cycleLength |-> 42,
             trimming |-> "auto", parts |-> 4, localKib |-> 32,
             nonceStart |-> 0, count |-> 1, prePow |-> "01"]

\* Every backend, machine and graph size that sizes differently.
Sizes == {[machine |-> machine0,
           args |-> [Defaults EXCEPT !.backend = backend, !.edgeBits = bits,
                                     !.trimming = trimming, !.parts = parts0,
                                     !.localKib = kib]] :
            machine0 \in Machines, backend \in {"auto", "wgpu", "metal", "cpu"},
            bits \in {1, 3, 17, 18, 19, 20, 24, 26, 28, 29, 30},
            trimming \in {"auto", "slean", "lean"},
            parts0 \in {2, 4, 256}, kib \in {8, 32, 64}}

\* Far more parts than edges, or twice as many; a bucket count that does not fit u16.
Extremes == {[machine |-> machine0,
              args |-> [Defaults EXCEPT !.backend = "wgpu", !.edgeBits = bits,
                                        !.parts = 2^28, !.localKib = kib]] :
               machine0 \in {Pc, Mac}, bits \in {18, 24}, kib \in {2, 32}}
            \cup
            {[machine |-> Mac,
              args |-> [Defaults EXCEPT !.backend = "metal", !.edgeBits = 18,
                                        !.parts = 2^19]]}

\* gate over its nonces, up to the last ones there are.
Gates == {[machine |-> [Pc EXCEPT !.adapter = "none"],
           args |-> [Defaults EXCEPT !.backend = "cpu", !.edgeBits = 20, !.prePow = prePow,
                                     !.cycleLength = length,
                                     !.nonceStart = start, !.count = count]] :
            prePow \in {"00", "01", "empty", "invalid"}, length \in {4, 41, 42, 66},
            start \in {0, 3}, count \in 0..3}

\* The acceptance run, and a shorter one that is not it.
Acceptances == {[machine |-> Pc,
                 args |-> [Defaults EXCEPT !.prePow = "00", !.count = count]] : count \in {2, 3}}

Lives == {[machine |-> machine0,
           args |-> [Defaults EXCEPT !.command = "mine", !.cycleLength = length]] :
            machine0 \in Machines, length \in {4, 42}}

MCScenarios == Sizes \cup Extremes \cup Gates \cup Acceptances \cup Lives
MCAcceptFound == <<1>>

\* The hypothesis of SizesAgreeAlways holds here.
ASSUME MCStorage == StorageIsPlain
=============================================================================
