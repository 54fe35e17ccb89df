-------------------------------- MODULE Policy --------------------------------
(***************************************************************************)
(* The configuration file (config.py) and its readers: the runner, which   *)
(* refuses to start on a file that load_config rejects, and a gpu-claim at *)
(* the shell, which has no config of its own, reads single keys with       *)
(* vram_policy and max_holders, and falls back to defaults where           *)
(* load_config would raise.  They admit to one card, so they have to read  *)
(* the same numbers.                                                       *)
(*                                                                         *)
(* A key holds what int() makes of its value, Absent if the key is not     *)
(* there, or Bad if int() raises.  What else load_config demands of the    *)
(* file (root, projects, switches, autofix) is the flag `rest'.            *)
(***************************************************************************)
EXTENDS Integers, TLAPS

CONSTANTS
    None,               \* Python's None
    Absent, Bad,
    Dirs,               \* paths
    DEFAULT_RESERVE_MB,
    DEFAULT_MAX_HOLDERS

Values == Int \cup {Absent, Bad}

\* readable: a TOML file whose [queue] is a table, or is not there.
Files == [readable : BOOLEAN, rest : BOOLEAN,
          cpu_slots : Values,
          gpu_vram_mb : Values, gpu_vram_reserve_mb : Values,
          gpu_max_jobs : Values,
          claim_dir : Dirs \cup {None, Bad}]

\* What total_vram_mb finds on the card.
Cards == Nat \cup {None}

\* int(queue.get(key, default))
Get(v, default) == IF v = Absent THEN default ELSE v

-------------------------------------------------------------------------------
(***************************************************************************)
(* The runner.                                                             *)
(***************************************************************************)
Accepted(f) ==
    LET total == Get(f.gpu_vram_mb, None)
        reserve == Get(f.gpu_vram_reserve_mb, DEFAULT_RESERVE_MB)
        jobs == Get(f.gpu_max_jobs, DEFAULT_MAX_HOLDERS)
    IN  /\ f.readable /\ f.rest
        /\ f.cpu_slots # Bad /\ Get(f.cpu_slots, 4) >= 1
        /\ total # Bad /\ reserve # Bad /\ jobs # Bad
        /\ jobs >= 1 /\ reserve >= 0
        /\ total # None => reserve < total
        /\ f.claim_dir # Bad

load_config(f) ==
    [gpu_vram_mb |-> Get(f.gpu_vram_mb, None),
     gpu_vram_reserve_mb |-> Get(f.gpu_vram_reserve_mb, DEFAULT_RESERVE_MB),
     gpu_max_jobs |-> Get(f.gpu_max_jobs, DEFAULT_MAX_HOLDERS),
     claim_dir |-> f.claim_dir]

\* The capacity that is left of a total, if any.
Left(total, reserve) ==
    IF total = None \/ total - reserve <= 0 THEN None ELSE total - reserve

\* Runner._usable_mb on a card that is asked for its total if none is declared.
_usable_mb(cfg, card) ==
    Left(IF cfg.gpu_vram_mb = None THEN card ELSE cfg.gpu_vram_mb,
         cfg.gpu_vram_reserve_mb)

-------------------------------------------------------------------------------
(***************************************************************************)
(* A gpu-claim.                                                            *)
(***************************************************************************)
vram_policy(f) ==
    LET total == Get(f.gpu_vram_mb, None)
        reserve == Get(f.gpu_vram_reserve_mb, DEFAULT_RESERVE_MB)
    IN  IF ~f.readable \/ total = Bad \/ reserve = Bad
        THEN [total |-> None, reserve |-> DEFAULT_RESERVE_MB]
        ELSE IF reserve < 0 \/ (total # None /\ reserve >= total)
        THEN [total |-> total, reserve |-> DEFAULT_RESERVE_MB]
        ELSE [total |-> total, reserve |-> reserve]

max_holders(f) ==
    LET n == Get(f.gpu_max_jobs, DEFAULT_MAX_HOLDERS)
    IN  IF ~f.readable \/ n = Bad \/ n < 1 THEN DEFAULT_MAX_HOLDERS ELSE n

\* A declared total is that of card 0, the runner's.
default_usable_mb(f, index, card) ==
    LET policy == vram_policy(f)
    IN  Left(IF policy.total # None /\ index = 0 THEN policy.total ELSE card,
             policy.reserve)

-------------------------------------------------------------------------------
Distinct ==
    /\ None \notin Int /\ Absent \notin Int /\ Bad \notin Int
    /\ None # Absent /\ None # Bad /\ Absent # Bad

Defaults ==
    /\ DEFAULT_RESERVE_MB \in Nat
    /\ DEFAULT_MAX_HOLDERS \in Nat \ {0}

\* claim.py:140: "a capacity they disagree about is a card they will
\* double-book".  On a file that the runner accepts, a gpu-claim that reads the
\* same file sizes the runner's card as the runner does, whatever the file
\* says and whatever the card answers (_usable_mb, default_usable_mb).
THEOREM SameBudget ==
    ASSUME Distinct, Defaults,
           NEW f \in Files, NEW card \in Cards, Accepted(f)
    PROVE  default_usable_mb(f, 0, card) = _usable_mb(load_config(f), card)
<1> DEFINE total == Get(f.gpu_vram_mb, None)
           reserve == Get(f.gpu_vram_reserve_mb, DEFAULT_RESERVE_MB)
<1>1. /\ f.readable /\ total # Bad /\ reserve # Bad
      /\ reserve >= 0 /\ (total # None => reserve < total)
  BY DEF Accepted
<1>2. total \in Int \cup {None} /\ reserve \in Int
  <2>1. f.gpu_vram_mb \in Values /\ f.gpu_vram_reserve_mb \in Values
    BY DEF Files
  <2>2. DEFAULT_RESERVE_MB \in Int
    BY DEF Defaults
  <2> QED
    BY <1>1, <2>1, <2>2 DEF Distinct, Get, Values
<1>3. vram_policy(f) = [total |-> total, reserve |-> reserve]
  <2>1. ~(reserve < 0 \/ (total # None /\ reserve >= total))
    BY <1>1, <1>2
  <2> QED
    BY <1>1, <2>1 DEF vram_policy
<1>4. default_usable_mb(f, 0, card) =
        Left(IF total # None THEN total ELSE card, reserve)
  BY <1>3 DEF default_usable_mb
<1>5. _usable_mb(load_config(f), card) =
        Left(IF total = None THEN card ELSE total, reserve)
  BY DEF _usable_mb, load_config
<1> QED
  BY <1>4, <1>5

\* config.py:172: "The cap is a property of the card, not of the runner".  On a
\* file that the runner accepts, a gpu-claim counts holders against the cap of
\* the runner, whatever the file says or leaves out (max_holders, load_config).
THEOREM SameCap ==
    ASSUME Defaults, NEW f \in Files, Accepted(f)
    PROVE  max_holders(f) = load_config(f).gpu_max_jobs
<1> DEFINE n == Get(f.gpu_max_jobs, DEFAULT_MAX_HOLDERS)
<1>1. f.readable /\ n # Bad /\ n >= 1
  BY DEF Accepted
<1>2. n \in Int
  <2>1. f.gpu_max_jobs \in Values
    BY DEF Files
  <2> QED
    BY <1>1, <2>1 DEF Defaults, Get, Values
<1>3. ~ (n < 1)
  BY <1>1, <1>2
<1> QED
  BY <1>1, <1>3 DEF max_holders, load_config

\* config.py:163: "a nonsense reserve falls back rather than propagating a
\* negative capacity into ledger.fits", and a cap below one "would refuse every
\* claim on the box".  Whatever the file holds, also one the runner rejects, a
\* gpu-claim admits against a positive capacity or none, and a positive cap,
\* which is what the ledger assumes of its constants (vram_policy,
\* max_holders, default_usable_mb).
THEOREM PolicyIsSound ==
    ASSUME Distinct, Defaults,
           NEW f \in Files, NEW card \in Cards, NEW index \in Nat
    PROVE  /\ default_usable_mb(f, index, card) \in (Nat \ {0}) \cup {None}
           /\ max_holders(f) \in Nat \ {0}
<1> DEFINE policy == vram_policy(f)
<1>1. policy.total \in Int \cup {None} /\ policy.reserve \in Nat
  <2> DEFINE total == Get(f.gpu_vram_mb, None)
             reserve == Get(f.gpu_vram_reserve_mb, DEFAULT_RESERVE_MB)
  <2>1. total \in Int \cup {None, Bad} /\ reserve \in Int \cup {Bad}
    <3>1. f.gpu_vram_mb \in Values /\ f.gpu_vram_reserve_mb \in Values
      BY DEF Files
    <3> QED
      BY <3>1 DEF Distinct, Defaults, Get, Values
  <2>2. CASE ~f.readable \/ total = Bad \/ reserve = Bad
    <3>1. policy = [total |-> None, reserve |-> DEFAULT_RESERVE_MB]
      BY <2>2 DEF vram_policy
    <3> QED
      BY <3>1 DEF Defaults
  <2>3. CASE ~(~f.readable \/ total = Bad \/ reserve = Bad)
    <3>1. policy = IF reserve < 0 \/ (total # None /\ reserve >= total)
                   THEN [total |-> total, reserve |-> DEFAULT_RESERVE_MB]
                   ELSE [total |-> total, reserve |-> reserve]
      BY <2>3 DEF vram_policy
    <3>2. policy.total = total
      BY <3>1
    <3>3. policy.reserve \in Nat
      <4>1. reserve \in Int
        BY <2>1, <2>3
      <4>2. policy.reserve = DEFAULT_RESERVE_MB
            \/ (policy.reserve = reserve /\ ~(reserve < 0))
        BY <3>1
      <4> QED
        BY <4>1, <4>2 DEF Defaults
    <3> QED
      BY <2>1, <2>3, <3>2, <3>3
  <2> QED
    BY <2>2, <2>3
<1>2. \A t \in Int \cup {None}, r \in Nat : Left(t, r) \in (Nat \ {0}) \cup {None}
  BY DEF Left, Distinct
<1>3. default_usable_mb(f, index, card) \in (Nat \ {0}) \cup {None}
  <2>1. (IF policy.total # None /\ index = 0 THEN policy.total ELSE card)
          \in Int \cup {None}
    BY <1>1 DEF Cards
  <2> QED
    BY <1>1, <1>2, <2>1 DEF default_usable_mb
<1>4. max_holders(f) \in Nat \ {0}
  <2>1. f.gpu_max_jobs \in Values
    BY DEF Files
  <2> QED
    BY <2>1 DEF max_holders, Defaults, Distinct, Get, Values
<1> QED
  BY <1>3, <1>4
=============================================================================
