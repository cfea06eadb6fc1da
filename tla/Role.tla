-------------------------------- MODULE Role --------------------------------
(***************************************************************************)
(* The start and the end of an application on FPGAs.  The wrapper around   *)
(* it, mpi_wrapper, is invoked again and again: until it has written and   *)
(* read back a test pattern in DRAM and knows its rank, one invocation     *)
(* does one of these things; from then on it calls app_main.               *)
(*                                                                         *)
(* External: the management core (SMC) that writes two registers, the size *)
(* of the cluster not before the rank; and the DRAM, which may be broken.  *)
(***************************************************************************)
EXTENDS Integers

CONSTANTS Slot,         \* the slots for FPGAs, numbered by their rank
          ClusterSize

VARIABLES fmc,    \* piFMC_to_ROLE_rank and piFMC_to_ROLE_size
          role,   \* the static variables of the wrapper
          mmio    \* what poMMIO shows

Nothing == [rank |-> 0, size |-> 0]

(* after reset *)
Statics == [written |-> FALSE,  \* memory_pattern_write
            read |-> FALSE,     \* memory_pattern_read
            tested |-> FALSE,   \* memory_test_flag
            init |-> FALSE,     \* app_init
            rank |-> 0, size |-> 0,
            inApp |-> FALSE,    \* app_main is running
            done |-> FALSE]     \* my_app_done

(* setMMIO_out; the counters of finished calls are left out. *)
Display(w) == [rank |-> w.rank % 16, init |-> w.init, done |-> w.done, tested |-> w.tested]

RoleInit ==
  /\ fmc = [s \in Slot |-> Nothing]
  /\ role = [s \in Slot |-> Statics]
  /\ mmio = [s \in Slot |-> Display(Statics)]

-----------------------------------------------------------------------------
(* The register of rank 0 is right from the start. *)
SetRank(s) ==
  /\ fmc[s] = Nothing /\ s # 0
  /\ fmc' = [fmc EXCEPT ![s].rank = s]
  /\ UNCHANGED <<role, mmio>>

SetSize(s) ==
  /\ fmc[s].rank = s /\ fmc[s].size = 0
  /\ fmc' = [fmc EXCEPT ![s].size = ClusterSize]
  /\ UNCHANGED <<role, mmio>>

-----------------------------------------------------------------------------
Ready(w) == w.init /\ w.read /\ w.written

(* One half of the memory test; a flag that stays 0 tells an error. *)
MemoryTest(w, intact) ==
  IF ~w.written THEN [w EXCEPT !.written = TRUE, !.tested = FALSE]
  ELSE IF ~w.read THEN [w EXCEPT !.read = TRUE, !.tested = @ \/ intact]
  ELSE w

(* A mutant of Latch: the size is not looked at. *)
LatchEarly(s, w) == [w EXCEPT !.rank = fmc[s].rank, !.size = fmc[s].size, !.init = TRUE]

Latch(s, w) ==
  IF fmc[s].size = 0 THEN w
  ELSE [w EXCEPT !.rank = fmc[s].rank, !.size = fmc[s].size, !.init = TRUE]

(* A mutant of WaitForInit: no display while the size is not known. *)
WaitForInitSilent(s) ==
  /\ ~role[s].inApp /\ ~Ready(role[s])
  /\ \E intact \in BOOLEAN :
       role' = [role EXCEPT ![s] = Latch(s, MemoryTest(@, intact))]
  /\ mmio' = IF role'[s].init THEN [mmio EXCEPT ![s] = Display(role'[s])] ELSE mmio
  /\ UNCHANGED fmc

WaitForInit(s) ==
  /\ ~role[s].inApp /\ ~Ready(role[s])
  /\ \E intact \in BOOLEAN :
       role' = [role EXCEPT ![s] = Latch(s, MemoryTest(@, intact))]
  /\ mmio' = [mmio EXCEPT ![s] = Display(role'[s])]
  /\ UNCHANGED fmc

AppMain(s) ==
  /\ ~role[s].inApp /\ Ready(role[s]) /\ ~role[s].done
  /\ role' = [role EXCEPT ![s].inApp = TRUE]
  /\ UNCHANGED <<fmc, mmio>>

(* MPI_Init of the program only sets hw_app_init, a flag that nobody reads.*)
CommRank(s) == role[s].rank
CommSize(s) == role[s].size

AppFinalize(s) ==
  /\ role[s].inApp /\ ~role[s].done
  /\ role' = [role EXCEPT ![s].done = TRUE]
  /\ UNCHANGED <<fmc, mmio>>

(* app_main returns.  A program that has not called MPI_Finalize is called *)
(* again by the next invocation.                                           *)
AppReturns(s) ==
  /\ role[s].inApp
  /\ role' = [role EXCEPT ![s].inApp = FALSE]
  /\ mmio' = [mmio EXCEPT ![s] = Display(role'[s])]
  /\ UNCHANGED fmc

RoleStep(s) ==
  \/ SetRank(s) \/ SetSize(s)
  \/ WaitForInit(s) \/ AppMain(s) \/ AppFinalize(s)
  \/ AppReturns(s)

-----------------------------------------------------------------------------
(* SAFETY: an application runs only after the memory test, and MPI tells   *)
(* it the rank and the size that the management core means, although these *)
(* come in two registers and at any time during the test.                  *)
KnowsItsPlace ==
  \A s \in Slot : role[s].inApp =>
    role[s].written /\ role[s].read /\ CommRank(s) = s /\ CommSize(s) = ClusterSize

(* SAFETY: between invocations the display shows the state of the wrapper, *)
(* whichever of its returns was taken.                                     *)
DisplayIsTrue == \A s \in Slot : ~role[s].inApp => mmio[s] = Display(role[s])

=============================================================================
