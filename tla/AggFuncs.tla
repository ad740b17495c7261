------------------------------ MODULE AggFuncs ------------------------------
(***************************************************************************)
(* The accumulators of eval/funcs.go: what COUNT, MIN, MAX and SUM keep    *)
(* while the rows of a SELECT pass by.  MIN, MAX and SUM start on integers *)
(* and change to floats at the first NumberValue, for good.                *)
(***************************************************************************)
EXTENDS Values

builtinAggFuncs == {"count", "min", "max", "sum"}

(* A faulty NewAggFunc, which starts MIN and MAX at zero. *)
NewAggFuncAtZero(name) ==
    [name |-> name, count |-> 0, isFloat |-> FALSE, ival |-> 0, fval |-> IntToFloat(0)]

(* ival is the extreme so far of MIN and MAX and the sum so far of SUM, as *)
(* an integer, and fval the same as a float.                               *)
NewAggFunc(name) ==
    [name |-> name, count |-> 0, isFloat |-> FALSE,
     ival |-> CASE name = "min" -> MaxInt
                [] name = "max" -> MinInt
                [] OTHER -> 0,
     fval |-> IntToFloat(0)]

-----------------------------------------------------------------------------
(* MIN and MAX *)

setInt(fn, n) ==
    IF (fn.name = "min" /\ n < fn.ival) \/ (fn.name = "max" /\ n > fn.ival)
    THEN [fn EXCEPT !.ival = n] ELSE fn

(* MIN keeps the larger float and MAX the smaller one. *)
setFloat(fn, x) ==
    IF \/ fn.name = "min" /\ FloatLess(fn.fval, x)
       \/ fn.name = "max" /\ FloatLess(x, fn.fval)
    THEN [fn EXCEPT !.fval = x] ELSE fn

(* A faulty AsFloat, which forgets what was an integer so far. *)
AsFloatFromZero(fn) == [fn EXCEPT !.isFloat = TRUE]

(* The change to floats: what was an integer so far goes on as a float. *)
AsFloat(fn) ==
    IF fn.isFloat THEN fn
    ELSE [fn EXCEPT !.isFloat = TRUE, !.fval = IntToFloat(fn.ival)]

minMaxStep(fn, v) ==
    CASE v.type = "Integer" /\ ~fn.isFloat -> setInt(fn, v.val)
      [] v.type = "Integer" /\ fn.isFloat -> setFloat(fn, IntToFloat(v.val))
      [] v.type = "Number" -> setFloat(AsFloat(fn), v.val)
      [] v.type = "Null" -> fn
      [] OTHER -> Panic

-----------------------------------------------------------------------------
(* SUM *)

addFloat(fn, x) == [fn EXCEPT !.fval = FloatOp("+", @, x)]

(* A faulty sumStep, which still adds integers to the integer sum when it  *)
(* has gone on to floats.                                                  *)
sumStepOfType(fn, v) ==
    CASE v.type = "Integer" -> [fn EXCEPT !.ival = Wrap(@ + v.val)]
      [] v.type = "Number" -> addFloat(AsFloat(fn), v.val)
      [] v.type = "Null" -> fn
      [] OTHER -> Panic

sumStep(fn, v) ==
    CASE v.type = "Integer" /\ ~fn.isFloat -> [fn EXCEPT !.ival = Wrap(@ + v.val)]
      [] v.type = "Integer" /\ fn.isFloat -> addFloat(fn, IntToFloat(v.val))
      [] v.type = "Number" -> addFloat(AsFloat(fn), v.val)
      [] v.type = "Null" -> fn
      [] OTHER -> Panic

-----------------------------------------------------------------------------

(* A faulty step, of which COUNT counts nulls. *)
stepOnNull(fn, isStar, v) ==
    CASE fn.name = "count" /\ v # Panic -> [fn EXCEPT !.count = @ + 1]
      [] fn.name = "sum" -> sumStep(fn, v)
      [] fn.name \in {"min", "max"} -> minMaxStep(fn, v)
      [] OTHER -> Panic

(* One row passes: v is the value of the argument, which is not evaluated  *)
(* for COUNT of "*".  A panic of the argument is a panic of the step.      *)
step(fn, isStar, v) ==
    CASE fn.name = "count" /\ (isStar \/ v # Null) /\ v # Panic ->
            [fn EXCEPT !.count = @ + 1]
      [] fn.name = "count" /\ ~isStar /\ v = Null -> fn
      [] fn.name = "sum" -> sumStep(fn, v)
      [] fn.name \in {"min", "max"} -> minMaxStep(fn, v)
      [] OTHER -> Panic

finalize(fn) ==
    CASE fn.name = "count" -> IntegerValue(fn.count)
      [] fn.name # "count" /\ fn.isFloat -> NumberValue(fn.fval)
      [] OTHER -> IntegerValue(fn.ival)

=============================================================================
