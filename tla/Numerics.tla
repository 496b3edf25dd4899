------------------------------ MODULE Numerics ------------------------------
(***************************************************************************)
(* Three independent parts of os/core/aios_core.py: dual numbers, tensors  *)
(* read through strides, and the CORDIC engine: the reductions around its  *)
(* rotations and the loop of atan2.                                        *)
(***************************************************************************)
EXTENDS Integers, Sequences, SequencesExt, Functions

-----------------------------------------------------------------------------
(***************************************************************************)
(* DualNumber of os/core/aios_core.py, on integers: a value and its        *)
(* derivative at the point Point, carried through the operators.  A value  *)
(* is built from the variable x one operator at a time; beside it we keep  *)
(* the polynomial it is a value of, as its coefficients.                   *)
(***************************************************************************)

CONSTANTS Point, Scalars, MaxDegree, MaxDualSteps

ASSUME DualNumbersAssumption == Point \in Int /\ Scalars \subseteq Int /\ MaxDegree \in Nat

VARIABLES
    value,      \* the DualNumber: [re, du]
    poly,       \* the coefficients of the polynomial, constant first
    steps       \* how many operators were applied

dualVars == <<value, poly, steps>>

X == [re |-> Point, du |-> 1]
Lift(c) == [re |-> c, du |-> 0]

DualInit == value = X /\ poly = <<0, 1>> /\ steps = 0

-----------------------------------------------------------------------------
Plus(a, b) == [re |-> a.re + b.re, du |-> a.du + b.du]
Minus(a, b) == [re |-> a.re - b.re, du |-> a.du - b.du]

\* A fault: the derivative of a product is the product of the derivatives.
TimesApart(a, b) == [re |-> a.re * b.re, du |-> a.du * b.du]

Times(a, b) == [re |-> a.re * b.re, du |-> a.re * b.du + a.du * b.re]

Negated(a) == [re |-> -a.re, du |-> -a.du]
Power(a, n) == [re |-> a.re ^ n, du |-> n * a.re ^ (n - 1) * a.du]

\* The same on coefficients.
Coefficient(p, i) == IF i < Len(p) THEN p[i + 1] ELSE 0
Added(p, q, sign) == [i \in 1..(IF Len(p) > Len(q) THEN Len(p) ELSE Len(q)) |->
                        Coefficient(p, i - 1) + sign * Coefficient(q, i - 1)]
Product(p, q) == [i \in 1..(Len(p) + Len(q) - 1) |->
                    SumFunction([j \in 0..(i - 1) |-> Coefficient(p, j) * Coefficient(q, i - 1 - j)])]

Applies(v, p) ==
    /\ steps < MaxDualSteps /\ Len(p) <= MaxDegree + 1
    /\ value' = v /\ poly' = p /\ steps' = steps + 1

DualNext ==
    \/ \E c \in Scalars :
         \/ Applies(Plus(value, Lift(c)), Added(poly, <<c>>, 1))
         \/ Applies(Minus(Lift(c), value), Added(<<c>>, poly, -1))
         \/ Applies(Times(Lift(c), value), Product(<<c>>, poly))
    \/ Applies(Plus(value, X), Added(poly, <<0, 1>>, 1))
    \/ Applies(Times(value, X), Product(poly, <<0, 1>>))
    \/ Applies(Times(value, value), Product(poly, poly))
    \/ Applies(Negated(value), Product(<<-1>>, poly))
    \/ Applies(Power(value, 2), Product(poly, poly))
    \/ Applies(Power(value, 3), Product(poly, Product(poly, poly)))

DualSpec == DualInit /\ [][DualNext]_dualVars

-----------------------------------------------------------------------------
ValueOf(p) == SumFunction([i \in 0..(Len(p) - 1) |-> p[i + 1] * Point ^ i])
SlopeOf(p) == SumFunction([i \in 1..(Len(p) - 1) |-> i * p[i + 1] * Point ^ (i - 1)])

\* "Operator overloading propagates derivative information automatically through any
\* computation graph": whatever operators built it, the dual part is the derivative of the
\* polynomial that the real part is the value of.
DualIsDerivative == value.re = ValueOf(poly) /\ value.du = SlopeOf(poly)

-----------------------------------------------------------------------------
(***************************************************************************)
(* Tensor of os/core/aios_core.py: a flat buffer read through strides.     *)
(* Operators are applied to a tensor one after the other; beside the       *)
(* buffer we keep the function from index tuples to values that the tensor *)
(* stands for, computed by the textbook definition of each operator.       *)
(***************************************************************************)

CONSTANTS Operands, MaxOps

ASSUME TensorsAssumption == MaxOps \in Nat

\* Index tuples count from zero, buffers and shapes are sequences.
Numel(shape) == FoldLeft(LAMBDA n, d : n * d, 1, shape)
Indices(shape) == {i \in [1..Len(shape) -> 0..2] : \A k \in 1..Len(shape) : i[k] < shape[k]}

VARIABLES
    tensor,     \* [shape, buffer]
    meaning,    \* index tuple -> value
    ops         \* how many operators were applied

tensorVars == <<tensor, meaning, ops>>

-----------------------------------------------------------------------------
Strides(shape) == [i \in 1..Len(shape) |-> Numel(SubSeq(shape, i + 1, Len(shape)))]

FlatIndex(shape, index) ==
    SumFunction([k \in 1..Len(shape) |-> index[k] * Strides(shape)[k]])

Element(t, index) == t.buffer[FlatIndex(t.shape, index) + 1]

\* The index tuple a loop over the flat positions of a shape computes: divide, keep the rest.
Unflatten(shape, flat) ==
    [k \in 1..Len(shape) |->
        (IF k = 1 THEN flat ELSE flat % Strides(shape)[k - 1]) \div Strides(shape)[k]]

Built(shape, At(_)) ==
    [shape |-> shape,
     buffer |-> [p \in 1..Numel(shape) |-> At(Unflatten(shape, p - 1))]]

\* Shapes are aligned at their last dimension.
Dim(shape, n, k) == IF k <= n - Len(shape) THEN 1 ELSE shape[k - (n - Len(shape))]
Longer(a, b) == IF Len(a) > Len(b) THEN Len(a) ELSE Len(b)
Broadcastable(a, b) ==
    \A k \in 1..Longer(a, b) : LET n == Longer(a, b) IN
        Dim(a, n, k) = Dim(b, n, k) \/ Dim(a, n, k) = 1 \/ Dim(b, n, k) = 1
BroadcastShape(a, b) ==
    LET n == Longer(a, b)
    IN [k \in 1..n |-> IF Dim(a, n, k) > Dim(b, n, k) THEN Dim(a, n, k) ELSE Dim(b, n, k)]
BroadcastIndex(shape, out) ==
    [k \in 1..Len(shape) |-> IF shape[k] > 1 THEN out[k + Len(out) - Len(shape)] ELSE 0]

Elementwise(a, b) ==
    Built(BroadcastShape(a.shape, b.shape),
          LAMBDA i : Element(a, BroadcastIndex(a.shape, i)) + Element(b, BroadcastIndex(b.shape, i)))

\* A fault: only the shape is turned.
TransposedShape(a) == [shape |-> Reverse(a.shape), buffer |-> a.buffer]

Transposed(a) ==
    LET m == a.shape[1] n == a.shape[2]
    IN [shape |-> <<n, m>>,
        buffer |-> [p \in 1..(n * m) |-> a.buffer[((p - 1) % m) * n + (p - 1) \div m + 1]]]

\* Rows of the left buffer against rows of the transposed right one.
Matmul(a, b) ==
    LET k == a.shape[2]
    IN Built(<<a.shape[1], b.shape[2]>>,
             LAMBDA i : SumFunction([x \in 1..k |-> a.buffer[i[1] * k + x]
                                                    * Transposed(b).buffer[i[2] * k + x]]))

SumAxis(a, axis) ==
    LET left == RemoveAt(a.shape, axis)
        shape == IF left = << >> THEN <<1>> ELSE left
        Full(i, x) == InsertAt(IF left = << >> THEN << >> ELSE i, axis, x)
    IN Built(shape, LAMBDA i : SumFunction([x \in 0..(a.shape[axis] - 1) |-> Element(a, Full(i, x))]))

-----------------------------------------------------------------------------
MeaningOf(o) == [i \in Indices(o.shape) |-> Element(o, i)]

TensorInit ==
    /\ tensor \in Operands /\ ops = 0
    /\ meaning = MeaningOf(tensor)

Yields(t, m) == ops < MaxOps /\ ops' = ops + 1 /\ tensor' = t /\ meaning' = m

AddTensor(o) ==
    /\ Broadcastable(tensor.shape, o.shape)
    /\ Yields(Elementwise(tensor, o),
              [i \in Indices(BroadcastShape(tensor.shape, o.shape)) |->
                 meaning[BroadcastIndex(tensor.shape, i)]
                 + MeaningOf(o)[BroadcastIndex(o.shape, i)]])

Transpose ==
    /\ Len(tensor.shape) = 2
    /\ Yields(Transposed(tensor),
              [i \in Indices(Reverse(tensor.shape)) |-> meaning[Reverse(i)]])

Multiply(o) ==
    /\ Len(tensor.shape) = 2 /\ Len(o.shape) = 2 /\ tensor.shape[2] = o.shape[1]
    /\ Yields(Matmul(tensor, o),
              [i \in Indices(<<tensor.shape[1], o.shape[2]>>) |->
                 SumFunction([x \in 0..(o.shape[1] - 1) |->
                                meaning[<<i[1], x>>] * MeaningOf(o)[<<x, i[2]>>]])])

Sum(axis) ==
    /\ axis <= Len(tensor.shape) /\ Len(tensor.shape) > 1
    /\ Yields(SumAxis(tensor, axis),
              [i \in Indices(RemoveAt(tensor.shape, axis)) |->
                 SumFunction([x \in 0..(tensor.shape[axis] - 1) |-> meaning[InsertAt(i, axis, x)]])])

TensorNext ==
    \/ \E o \in Operands : AddTensor(o) \/ Multiply(o)
    \/ Transpose
    \/ \E axis \in 1..3 : Sum(axis)

TensorSpec == TensorInit /\ [][TensorNext]_tensorVars

-----------------------------------------------------------------------------
\* "NumPy-style shape broadcasting rules": each element that an index tuple reaches through
\* the strides is the one the operators define, after any chain of them.
BufferMeans ==
    /\ DOMAIN meaning = Indices(tensor.shape)
    /\ Len(tensor.buffer) = Numel(tensor.shape)
    /\ \A i \in Indices(tensor.shape) : Element(tensor, i) = meaning[i]

-----------------------------------------------------------------------------
(***************************************************************************)
(* CORDIC of os/core/aios_core.py: the reduction of an angle into the      *)
(* range in which the rotation of sincos converges, the powers of exp, and *)
(* atan2.  The rotation of sincos approximates a real function and is      *)
(* taken as exact: its angles count eighths of a turn, and sines and       *)
(* cosines are named by 0, 1 for the square root of one half, and 2 for    *)
(* one, with their signs.  The vectoring loop of atan2 is modelled as it   *)
(* is, with five of its iterations, angles in thousandths of a radian and  *)
(* coordinates scaled so that every halving is exact.                      *)
(***************************************************************************)

CONSTANTS MaxTurns, MaxExponent, Base

ASSUME TrigonometryAssumption == MaxTurns \in Nat /\ MaxExponent \in Nat /\ Base \in Nat

VARIABLES
    task,       \* "sincos", "exp" or "atan2"
    given,      \* its argument
    angle,      \* of sincos: what is left of the angle
    flip,       \* of sincos: whether the angle was mirrored
    power,      \* of exp: the bits of the exponent still to come
    square,     \* of exp: the base to the next power of two
    answer      \* the result, <<>> until it is there

trigVars == <<task, given, angle, flip, power, square, answer>>

Abs(n) == IF n < 0 THEN -n ELSE n
HalfTurn == 4
Quarter == 2

TrigInit ==
    /\ flip = FALSE /\ square = Base /\ answer = << >>
    /\ \/ task = "sincos" /\ given \in (-8 * MaxTurns)..(8 * MaxTurns)
          /\ angle = given /\ power = 0
       \/ task = "exp" /\ given \in (-MaxExponent)..MaxExponent
          /\ angle = 1 /\ power = Abs(given)
       \/ task = "atan2" /\ given \in {<<y, x>> : y \in -1..1, x \in -1..1}
          /\ angle = 0 /\ power = 0

-----------------------------------------------------------------------------
Computing(t) == task = t /\ answer = << >>
Reduces(a, mirrored) ==
    angle' = a /\ flip' = mirrored /\ UNCHANGED <<task, given, power, square, answer>>

WindsDown == Computing("sincos") /\ angle > HalfTurn /\ Reduces(angle - 2 * HalfTurn, FALSE)
WindsUp == Computing("sincos") /\ angle < -HalfTurn /\ Reduces(angle + 2 * HalfTurn, FALSE)

Wound == Computing("sincos") /\ Abs(angle) <= HalfTurn
Mirrors ==
    /\ Wound /\ Abs(angle) > Quarter
    /\ Reduces(IF angle > 0 THEN HalfTurn - angle ELSE -HalfTurn - angle, TRUE)

\* What the loop finds for an angle of at most a quarter turn.
LoopSin(a) == a
LoopCos(a) == Quarter - Abs(a)

\* A fault: the cosine of a mirrored angle keeps its sign.
RotatesUnsigned ==
    /\ Wound /\ Abs(angle) <= Quarter
    /\ answer' = <<LoopSin(angle), LoopCos(angle)>>
    /\ UNCHANGED <<task, given, angle, flip, power, square>>

Rotates ==
    /\ Wound /\ Abs(angle) <= Quarter
    /\ answer' = <<LoopSin(angle), IF flip THEN -LoopCos(angle) ELSE LoopCos(angle)>>
    /\ UNCHANGED <<task, given, angle, flip, power, square>>

\* exp: the integer part of the exponent, by squaring; angle holds the result so far.
Squares ==
    /\ Computing("exp") /\ power > 0
    /\ angle' = (IF power % 2 = 1 THEN angle * square ELSE angle)
    /\ square' = square * square /\ power' = power \div 2
    /\ UNCHANGED <<task, given, flip, answer>>

\* A negative exponent inverts: the result is one over the second part.
Inverts ==
    /\ Computing("exp") /\ power = 0
    /\ answer' = <<given < 0, angle>>
    /\ UNCHANGED <<task, given, angle, flip, power, square>>

\* atan2: the loop of the vectoring mode, on coordinates of the first octant.
ArcTangents == <<785, 464, 245, 124, 62>>
Pi == 3142
HalfPi == 1571
Scale == 1024

Turned(v, i) ==
    LET d == IF v.y > 0 THEN -1 ELSE 1 IN
    [x |-> v.x + d * (v.y \div 2 ^ i),
     y |-> v.y - d * (v.x \div 2 ^ i),
     z |-> v.z + d * ArcTangents[i + 1]]

LoopAtan(y, x) ==
    FoldLeft(Turned, [x |-> Scale * x, y |-> Scale * y, z |-> 0], <<0, 1, 2, 3, 4>>).z

\* The larger coordinate first, then the signs.
Atan2(y, x) ==
    LET near == IF Abs(y) > Abs(x) THEN HalfPi - LoopAtan(Abs(x), Abs(y)) ELSE LoopAtan(Abs(y), Abs(x))
        half == IF x < 0 THEN Pi - near ELSE near
    IN IF y < 0 THEN -half ELSE half

Turns ==
    /\ Computing("atan2")
    /\ answer' = <<IF given = <<0, 0>> THEN 0 ELSE Atan2(given[1], given[2])>>
    /\ UNCHANGED <<task, given, angle, flip, power, square>>

TrigNext == WindsDown \/ WindsUp \/ Mirrors \/ Rotates \/ Squares \/ Inverts \/ Turns

TrigSpec == TrigInit /\ [][TrigNext]_trigVars

-----------------------------------------------------------------------------
\* The sine and cosine of every eighth of a turn.
SinTable == [a \in 0..7 |-> CASE a \in {0, 4} -> 0 [] a \in {1, 3} -> 1 [] a = 2 -> 2
                              [] a \in {5, 7} -> -1 [] a = 6 -> -2]
Sine(a) == SinTable[a % 8]

\* "outside is range-reduced": the reductions give the sine and cosine of the
\* angle asked for, and the powers of exp multiply out.
ReductionsExact ==
    answer # << >> =>
        CASE task = "sincos" -> answer = <<Sine(given), Sine(given + 2)>>
          [] task = "exp"    -> answer = <<given < 0, Base ^ Abs(given)>>
          [] task = "atan2"  -> TRUE

\* "Returns angle in [-pi, pi]": not so, since the loop of atan2 turns away from
\* the axis instead of towards it.
AtanInRange == task = "atan2" /\ answer # << >> => answer[1] \in (-Pi)..Pi

=============================================================================
