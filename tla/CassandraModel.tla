--------------------------- MODULE CassandraModel ---------------------------
(***************************************************************************)
(* A model as the parsers leave it (parsers/CassandraModel.h), and the     *)
(* problems that the search sees: GenericDiscreteMDP on its states, Pomdp  *)
(* on beliefs.  A state of an MDP is a vector of length one.               *)
(***************************************************************************)
EXTENDS Sla

CONSTANT Unit   \* the probability 1, and the discount 1

ASSUME UnitAssumption == Unit \in Nat \ {0}

States(m)  == Indices(m.numStates)
Actions(m) == Indices(m.numActions)

\* checkForTerminalStates: absorbing without reward, whatever the action.
checkForTerminalStates(m) ==
  [s \in States(m) |->
     \A a \in Actions(m) : Get(m.T[a], s, s) = Unit /\ Get(m.R, s, a) = 0] @@ <<>>

\* A vector of length one with the number of a state.
StateVector(s) == push_back(NewCVector(1), 0, s)

StateOf(sv) == ValueAt(sv.data, 0)

-----------------------------------------------------------------------------
\* GenericDiscreteMDP.cc

\* getOutcomeProbVector: the entries of a column, in order.
getOutcomeProbVector(m, sv, a) ==
  LET column == Column(m.Ttr[a], StateOf(sv))
  IN  [o \in Indices(filled_in_column(m.Ttr[a], StateOf(sv))) |-> column[o + 1].value]

\* Mutant of getNextState: outcomes are numbered by states, as for a model that
\* lists all of them.
NextStateNumbered(m, sv, a, o) == StateVector(o)

\* getNextState: the row of the o-th entry of the same column.
getNextState(m, sv, a, o) == StateVector(Column(m.Ttr[a], StateOf(sv))[o + 1].index)

getReward(m, sv, a) == Get(m.R, StateOf(sv), a)

getIsTerminalState(m, sv) == m.isTerminalState[StateOf(sv)]

UNBOUNDED == <<99, 0>>

\* Mutant of getLongTermFactor: one reward fewer than the hint says.
LongTermFactorIsHorizon(m, maxHorizon) ==
  IF maxHorizon # -1 THEN <<Max({maxHorizon - 1, 0}), 1>>
  ELSE IF m.discount < Unit THEN <<Unit, Unit - m.discount>> ELSE UNBOUNDED

\* getLongTermFactor: how many rewards count at most, as a fraction.  Without
\* a discount and a horizon the program stops.
getLongTermFactor(m, maxHorizon) ==
  LET d == m.discount
      series == IF maxHorizon # -1
                THEN <<Unit ^ (maxHorizon + 1) - d ^ (maxHorizon + 1),
                       (Unit ^ maxHorizon) * (Unit - d)>>
                ELSE <<Unit, Unit - d>>
      factor == IF d < Unit THEN series ELSE UNBOUNDED
  IN  IF maxHorizon # -1 /\ (d >= Unit \/ maxHorizon * factor[2] < factor[1])
      THEN <<maxHorizon, 1>> ELSE factor

Rewards(m, a) == {Get(m.R, s, a) : s \in States(m)}

\* GenericDiscreteLowerBound, GenericDiscreteUpperBound, with the factor's
\* denominator left out.
MinRewards(m) == {Min(Rewards(m, a)) : a \in Actions(m)}

globalLowerBound(m, maxHorizon) == getLongTermFactor(m, maxHorizon)[1] * Max(MinRewards(m))

globalUpperBound(m, maxHorizon) ==
  getLongTermFactor(m, maxHorizon)[1] * Max(UNION {Rewards(m, a) : a \in Actions(m)})

\* initBlindWorstCase (BlindLBInitializer.cc): the same number for a POMDP,
\* as a vector that is 0 at terminal states.
initBlindWorstCase(m, maxHorizon) ==
  [s \in States(m) |-> IF m.isTerminalState[s] THEN 0 ELSE globalLowerBound(m, maxHorizon)]

-----------------------------------------------------------------------------
\* Pomdp.cc.  Beliefs are vectors of whole weights.

\* getObsProbVector
getObsProbVector(m, b, a) == DenseTimes(MultDense(m.Ttr[a], b), m.O[a])

\* getNextBelief, before it is normalised.
getNextBelief(m, b, a, o) == emult_column(m.O[a], o, mult(m.Ttr[a], b))

getBeliefReward(m, b, a) == inner_prod_column(m.R, a, b)

getIsTerminalBelief(m, b) ==
  FoldLeft(LAMBDA v, e : IF m.isTerminalState[e.index] THEN v ELSE v + e.value, 0, b.data) = 0
=============================================================================
