---------------------------- MODULE SystemClaims ----------------------------
(***************************************************************************)
(* What the documents and comments of the repository say of a system and   *)
(* step_global does not do.  Each has a run in which TLC finds the         *)
(* behaviour that contradicts it; the bundles that RestIsIndependent and   *)
(* AccessIsSettled (module System) set apart are the ones that it takes.   *)
(***************************************************************************)
EXTENDS System

\* CPU c has a bundle to issue and step_global ran it without a panic.
Steps(c) == ~Finished(cpus[c], programs[c]) /\ status' # "panicked"

\* The active transfers of control of the bundle that CPU c has to issue.
Transfers(c) == {s \in ActiveSlots(cpus[c], NextBundle(c)) : NextBundle(c)[s].op \in ControlOps}

\* "Unconditional jump to `imm`" (src/src/isa.rs): a Jump that is the only
\* active transfer of control of its bundle decides where the CPU goes on when
\* it leaves the bundle.
JumpsAreTaken ==
    [][\A c \in Cpus : Steps(c) /\ cpus'[c].pc # cpus[c].pc =>
         \A s \in Transfers(c) :
            Transfers(c) = {s} /\ NextBundle(c)[s].op = "Jump"
              => cpus'[c].pc = AsWord(NextBundle(c)[s].imm)]_vars

\* "losers are not delayed, they are illegal" (docs/compiler_contract.md, rule
\* 7): after System::new accepted the programs every request that is made is
\* the bus owner's, and granted.
RequestsAreGranted ==
    [][\A c \in Cpus : RequestOf(c) # NoReq /\ cpus'[c].pc # cpus[c].pc =>
         grant'.cpu = c]_vars

\* "A store invalidates matching peer lines, then transitions the writer's line
\* to `Modified`" (docs/adr/0004-stage-4d-msi-coherence.md): whenever a line of
\* a cache becomes Modified no other cache has a valid copy of it left.
StoresInvalidatePeers ==
    [][\A c, d \in Cpus : c # d =>
         \A addr \in Addresses :
            ~ModifiedFor(cpus[c].cache, addr) /\ ModifiedFor(cpus'[c].cache, addr)
              => ~Holds(cpus'[d].cache, addr)]_vars
=============================================================================
