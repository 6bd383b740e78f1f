------------------------------- MODULE BaudRate -------------------------------
(***************************************************************************)
(* GetConfig (src/drivers/adx_UsartDriver.h): the search for the divisor    *)
(* and the scale of the USART's baud-rate generator, made at compile time   *)
(* for the rate an application asks for.  The bits for frame length,        *)
(* parity, stop bits and priorities, which are only put together, are left  *)
(* out.                                                                     *)
(***************************************************************************)
EXTENDS Integers

CONSTANTS Fper,   \* the clock of the peripheral, in Hz
          Rates   \* the baud rates to be set

ASSUME BaudRateAssumption == Fper \in Nat \ {0} /\ Rates \subseteq Nat \ {0}

\* Integer division as C++ does it, truncating towards zero.
Quot(a, b) == IF a >= 0 THEN a \div b ELSE -((-a) \div b)

Abs(n) == IF n < 0 THEN -n ELSE n

\* fbaud_real: the rate that Bsel and Bscale make.
fbaud_real(Bsel, Bscale) ==
  IF Bscale >= 0 THEN Fper \div (2^Bscale * 16 * (Bsel + 1))
                 ELSE (2^(-Bscale) * Fper) \div (16 * (Bsel + 2^(-Bscale)))

\* It is the one wanted, to half a percent.
Meets(Bsel, Bscale, Fbaud) ==
  (Abs(fbaud_real(Bsel, Bscale) - Fbaud) * 1000) \div Fbaud < 5

\* The divisor that comes out for a scale, rounded down.
BselOf(Bscale, Fbaud) ==
  IF Bscale >= 0
  THEN Quot(Fper - 2^Bscale * 16 * Fbaud, 2^Bscale * 16 * Fbaud)
  ELSE Quot(2^(-Bscale) * (Fper - 16 * Fbaud), 16 * Fbaud)

\* Only the divisors rounded down are tried.
Found_RoundedDown(Fbaud) ==
  {c \in {[Bsel |-> BselOf(b, Fbaud), Bscale |-> b] : b \in -7..7} :
     c.Bsel \in 0..4094 /\ Meets(c.Bsel, c.Bscale, Fbaud)}

\* What the two loops find good enough, each divisor rounded down and up.
Found(Fbaud) ==
  {c \in {[Bsel |-> BselOf(b, Fbaud) + i, Bscale |-> b] : b \in -7..7, i \in 0..1} :
     c.Bsel \in 0..4094 /\ Meets(c.Bsel, c.Bscale, Fbaud)}

\* The smallest divisor is kept, of equal ones the one met first; the values
\* the search starts with if there is none.
Best(Fbaud) ==
  IF Found(Fbaud) = {} THEN [Bsel |-> 4095, Bscale |-> 0]
  ELSE CHOOSE c \in Found(Fbaud) : \A d \in Found(Fbaud) :
         c.Bsel < d.Bsel \/ (c.Bsel = d.Bsel /\ c.Bscale <= d.Bscale)

\* A divisor of zero goes with a scale of zero only, which the hardware demands.
Normal(c) ==
  IF c.Bsel = 0 /\ c.Bscale # 0
  THEN [Bsel |-> IF c.Bscale >= 0 THEN 2^c.Bscale - 1 ELSE 0, Bscale |-> 0]
  ELSE c

\* The two registers: eight and four bits of the divisor, four of the scale.
GetConfig(Fbaud) ==
  LET c == Normal(Best(Fbaud)) IN
  [BAUDCTRLA |-> c.Bsel % 256,
   BAUDCTRLB |-> (16 * (c.Bscale % 16)) + ((c.Bsel \div 256) % 16)]

\* What the hardware reads from them: the scale is signed.
ReadBack(cfg) ==
  LET nibble == cfg.BAUDCTRLB \div 16 IN
  [Bsel   |-> cfg.BAUDCTRLA + (256 * (cfg.BAUDCTRLB % 16)),
   Bscale |-> IF nibble >= 8 THEN nibble - 16 ELSE nibble]

\* The hardware can make the rate at all, to half a percent.
CanMake(Fbaud) == \E Bsel \in 0..4094, Bscale \in -7..7 : Meets(Bsel, Bscale, Fbaud)

\* The registers GetConfig gives make every rate that the hardware can make, in a
\* setting the hardware allows.
SettingsMeetRates ==
  \A Fbaud \in Rates :
    CanMake(Fbaud) =>
      LET c == ReadBack(GetConfig(Fbaud)) IN
      Meets(c.Bsel, c.Bscale, Fbaud) /\ (c.Bsel = 0 => c.Bscale = 0)
================================================================================
