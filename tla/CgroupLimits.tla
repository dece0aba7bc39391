---------------------------- MODULE CgroupLimits ----------------------------
(***************************************************************************)
(* From the resolved limits of a Container to the controls of its cgroup     *)
(* (planLimits of src/internal/cgroupv2/types.go): the CPU quota of the fixed *)
(* period and the whole pages of memory.  The unsigned machine integers wrap  *)
(* at 2^Bits.                                                               *)
(***************************************************************************)
EXTENDS Integers

CONSTANT Bits \* width of the machine integers

\* The number of machine integers, and the largest page.
Modulus == 2^Bits
LargestPage == 2^(Bits - 1)

\* The page sizes that planLimits accepts.
PageSizes == {2^k : k \in 0 .. Bits - 1}

\* Remainder times the period has to fit, as it does in 64 bits.  That powers of
\* two are positive integers is said for the proofs, whose provers know no powers.
BitsAssumption ==
    /\ Bits \in Nat /\ Modulus \in Nat /\ Modulus > 100000 * 1000
    /\ LargestPage \in Nat \ {0} /\ PageSizes \subseteq Nat \ {0}

MaxUint == Modulus - 1
Wrap(n) == n % (MaxUint + 1)

CPUPeriodMicros == 100000
MinimumCPUQuotaMicros == 1000
MinimumCPULimitMilli == 10

\* The answer to a limit that is refused.
Refused == -1

\* cpuQuotaMicros: whole CPUs and the fraction, each rounded and guarded.
CPUQuota(milli) ==
    LET whole    == milli \div 1000
        quota    == Wrap(whole * CPUPeriodMicros)
        fraction == ((milli % 1000) * CPUPeriodMicros + 999) \div 1000
    IN  IF /\ milli >= MinimumCPULimitMilli
           /\ whole <= MaxUint \div CPUPeriodMicros
           /\ quota <= MaxUint - fraction
           /\ quota + fraction >= MinimumCPUQuotaMicros
        THEN quota + fraction
        ELSE Refused

\* roundMemoryToPage: the pages that hold the value.
RoundMemory(value, page) ==
    LET increment == page - (value % page)
    IN  IF value % page = 0 THEN value
        ELSE IF value <= MaxUint - increment THEN value + increment
        ELSE Refused

-----------------------------------------------------------------------------
(* What the conversions promise of an input                                 *)

\* A CPU limit is refused exactly if it is below the floor or its quota does not
\* fit; otherwise the quota is exact: a limit of one milli-CPU is 100 micros of
\* the period, and neither the split of cpuQuotaMicros nor its rounding loses any.
QuotaExact(milli) ==
    CPUQuota(milli) =
        IF milli >= MinimumCPULimitMilli /\ milli <= MaxUint \div 100 THEN 100 * milli ELSE Refused

\* roundMemoryToPage returns the least multiple of the page that is not below
\* the value, and refuses a value exactly if that multiple does not fit.
RoundExact(value, page) ==
    LET size == RoundMemory(value, page)
    IN  \/ size >= value /\ size - value < page /\ size <= MaxUint /\ size % page = 0
        \/ size = Refused /\ value > MaxUint - (MaxUint % page)
=============================================================================
