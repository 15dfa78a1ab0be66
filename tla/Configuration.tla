---------------------------- MODULE Configuration ----------------------------
(***************************************************************************)
(* The LoadConfigFromEnv functions: what becomes of the numeric settings   *)
(* of the five services for any text in the environment.                   *)
(*                                                                         *)
(* A text is Unset, Garbage (not a numeral for std::stoul), or a numeral,  *)
(* represented by its integer.  The widths are constants; the code's are   *)
(* 2^16 - 1, 2^32 - 1 and 2^64 - 1.                                        *)
(***************************************************************************)
EXTENDS Integers

CONSTANTS
  UShortMax, UIntMax, ULongMax,
  PrefetchMax,             \* 1000 in the code
  Default,                 \* the member initialisers of the Config structs
  Unset, Garbage

\* Settings whose zero is replaced by the default.
NonZeroSettings ==
  {"FETCH_INTERVAL_SECONDS", "FETCH_TIMEOUT_SECONDS",
   "DIGEST_INTERVAL_SECONDS", "DIGEST_TOP_N", "DIGEST_PERIOD_HOURS",
   "DIGEST_HISTORY_SIZE"}

\* Settings whose value is checked before it is used.
CheckedSettings == NonZeroSettings \union {"HTTP_PORT", "PARSER_PREFETCH"}

PlainSettings ==
  {"RABBITMQ_MAX_RECONNECT_ATTEMPTS", "RABBITMQ_RECONNECT_DELAY_SECONDS"}

Settings ==
  NonZeroSettings \union PlainSettings
    \union {"RABBITMQ_PORT", "HTTP_PORT", "PARSER_PREFETCH"}

ASSUME ConfigurationAssumption ==
  /\ UShortMax \in Nat /\ UIntMax \in Nat /\ ULongMax \in Nat
  /\ 0 < UShortMax /\ UShortMax < UIntMax /\ UIntMax < ULongMax
  /\ (UIntMax + 1) % (UShortMax + 1) = 0 /\ (ULongMax + 1) % (UIntMax + 1) = 0
  /\ PrefetchMax \in 1..UShortMax
  /\ Default \in [Settings -> 1..UShortMax]
  /\ Default["PARSER_PREFETCH"] <= PrefetchMax
  /\ Unset \notin Int /\ Garbage \notin Int

Truncate(n, max) == n % (max + 1)

\* std::stoul negates a numeral with a minus sign in its own width, and throws
\* on one that does not fit.
Parses(raw) == raw # Garbage /\ -ULongMax <= raw /\ raw <= ULongMax

Stoul(raw) == Truncate(raw, ULongMax)

ReadUint32Env(raw, fallback) ==
  IF raw = Unset THEN fallback
  ELSE IF ~Parses(raw) THEN fallback
  ELSE Truncate(Stoul(raw), UIntMax)

\* The check is made before the truncation.
NonZero_withEarlyCheck(raw, default) ==
  IF raw = 0 THEN default ELSE ReadUint32Env(raw, default)

\* The check is made on the truncated value.
NonZero(raw, default) ==
  LET n == ReadUint32Env(raw, default) IN IF n = 0 THEN default ELSE n

HttpPort(raw, default) ==
  LET port == ReadUint32Env(raw, default)
  IN  IF port = 0 \/ port > UShortMax THEN default ELSE port

\* The parser has a reader of its own, which checks the untruncated value.
Prefetch(raw, default) ==
  IF raw # Unset /\ Parses(raw) /\ Stoul(raw) \in 1..PrefetchMax
  THEN Stoul(raw)
  ELSE default

Load(name, raw) ==
  LET default == Default[name]
  IN  CASE name \in NonZeroSettings  -> NonZero(raw, default)
        [] name \in PlainSettings    -> ReadUint32Env(raw, default)
        [] name = "RABBITMQ_PORT"    -> Truncate(ReadUint32Env(raw, default), UShortMax)
        [] name = "HTTP_PORT"        -> HttpPort(raw, default)
        [] name = "PARSER_PREFETCH"  -> Prefetch(raw, default)

\* What the warnings call usable of the checked settings, and of the others what
\* they can be used with: nothing in the code warns of a RABBITMQ_PORT.
Usable(name) ==
  CASE name \in NonZeroSettings -> 1..UIntMax
    [] name \in PlainSettings   -> 0..UIntMax
    [] name = "RABBITMQ_PORT"   -> 1..UShortMax
    [] name = "HTTP_PORT"       -> 1..UShortMax
    [] name = "PARSER_PREFETCH" -> 1..PrefetchMax
=============================================================================
