---------------------------- MODULE WcetService -----------------------------
(***************************************************************************)
(* What an instantiated formula promises (README.md, "WCET formula         *)
(* instantiation"): asked for a valuation of its parameters it answers,    *)
(* before the next question, a bound that is at least the WCET of the      *)
(* formula for that valuation, as often as it is asked.                    *)
(***************************************************************************)
EXTENDS Integers

CONSTANTS
  Formulas, Valuations,
  Least(_, _)   \* the WCET of a formula under a valuation

VARIABLES formula, status, asked, answer

Init ==
  /\ formula \in Formulas
  /\ status = "idle"
  /\ asked \in Valuations
  /\ answer = 0

Ask(v) ==
  /\ status = "idle"
  /\ status' = "busy"
  /\ asked' = v
  /\ UNCHANGED <<formula, answer>>

Answer ==
  /\ status = "busy"
  /\ status' = "idle"
  /\ answer' \in Int
  /\ answer' >= Least(formula, asked)
  /\ UNCHANGED <<formula, asked>>

Next == Answer \/ \E v \in Valuations : Ask(v)

Spec == Init /\ [][Next]_<<formula, status, asked, answer>>

=============================================================================
