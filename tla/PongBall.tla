------------------------------ MODULE PongBall ------------------------------
(***************************************************************************)
(* The ball of Mesh Pong (advanceBall) and the reflex controller that      *)
(* predicts where it will cross a paddle (projectBallY), with the numbers  *)
(* of PONG_FIELD.  Before every step of the ball the controllers move      *)
(* their paddles.  The right paddle may be one that nobody moves, which    *)
(* lets points be scored and new balls be served from every seed.          *)
(***************************************************************************)
EXTENDS Integers

\* PONG_FIELD
Width == 640
Height == 360
PaddleHeight == 82
PaddleStep == 28
Radius == 8
SpeedX == 42
SpeedY == 7
LeftFace == 32 + 12
RightFace == Width - 32 - 12

\* A seed is used modulo 2, 3, 4 and 8 only.
Seeds == 0 .. 23

VARIABLES
    ball,    \* x, y, vx, vy
    paddles, \* the upper edge of each paddle
    plays,   \* the right paddle is played by a controller too
    score    \* history: the side that scored last, or "none"

vars == <<ball, paddles, plays, score>>

least(a, b) == IF a < b THEN a ELSE b
most(a, b) == IF a > b THEN a ELSE b
magnitude(n) == IF n < 0 THEN -n ELSE n
ceilDiv(n, d) == (n + d - 1) \div d

clampPaddleY(y) == most(0, least(Height - PaddleHeight, y))

createInitialBall(seed, direction) ==
    [x |-> Width \div 2, y |-> 48 + (seed % 8) * 30, vx |-> direction * SpeedX,
     vy |-> (IF seed % 3 = 0 THEN -1 ELSE 1) * (SpeedY + (seed % 4))]

Centre == (Height - PaddleHeight) \div 2

Init ==
    /\ \E seed \in Seeds : ball = createInitialBall(seed, IF seed % 2 = 0 THEN -1 ELSE 1)
    /\ paddles = [side \in {"left", "right"} |-> Centre]
    /\ plays \in BOOLEAN /\ score = "none"

-----------------------------------------------------------------------------
(* One step of the ball.                                                   *)

\* mutant: the ball turns round where it is
TurnsOnly(b) == IF b.y - Radius <= 0 \/ b.y + Radius >= Height THEN [b EXCEPT !.vy = -b.vy] ELSE b
\* The edges of the field send the ball back.
OffTheEdges(b) ==
    IF b.y - Radius <= 0 \/ b.y + Radius >= Height
    THEN [b EXCEPT !.y = most(Radius, least(Height - Radius, b.y)), !.vy = -b.vy] ELSE b

CrossedLeft(b, next) == b.x - Radius >= LeftFace /\ next.x - Radius <= LeftFace
CrossedRight(b, next) == b.x + Radius <= RightFace /\ next.x + Radius >= RightFace
Within(next, y) == next.y >= y /\ next.y <= y + PaddleHeight

OffThePaddles(b, next, left, right) ==
    IF next.vx < 0 /\ CrossedLeft(b, next) /\ Within(next, left)
    THEN [next EXCEPT !.x = LeftFace + Radius, !.vx = magnitude(next.vx)]
    ELSE IF next.vx > 0 /\ CrossedRight(b, next) /\ Within(next, right)
    THEN [next EXCEPT !.x = RightFace - Radius, !.vx = -magnitude(next.vx)] ELSE next

Scorer(b) == IF b.x + Radius < 0 THEN "right" ELSE IF b.x - Radius > Width THEN "left" ELSE "none"

\* After a point a new ball is served; its seed is the old one and the tick.
advanceBall(b, left, right, seed) ==
    LET next == OffThePaddles(b, OffTheEdges([b EXCEPT !.x = b.x + b.vx, !.y = b.y + b.vy]), left, right)
        scorer == Scorer(next)
    IN [ball |-> IF scorer = "none" THEN next ELSE createInitialBall(seed, IF scorer = "left" THEN -1 ELSE 1),
        scorer |-> scorer]

-----------------------------------------------------------------------------
(* The reflex controller.                                                  *)

\* projectBallY: the edges as the ball will meet them
projectBallY(b, steps) ==
    LET path[i \in 0 .. steps] == IF i = 0 THEN b ELSE OffTheEdges([path[i - 1] EXCEPT !.y = @ + path[i - 1].vy])
    IN path[steps].y

\* resolveInterceptY and createReflexControllerAim
Aim(b, side) ==
    LET targetX == IF side = "left" THEN LeftFace + Radius ELSE RightFace - Radius
        towards == IF side = "left" THEN b.vx < 0 ELSE b.vx > 0
        steps == ceilDiv(magnitude(targetX - b.x), most(1, magnitude(b.vx)))
    IN IF towards THEN clampPaddleY(projectBallY(b, steps) - PaddleHeight \div 2) ELSE Centre

\* resolveControllerIntentForAim and movePaddle
Moved(y, aim) ==
    LET delta == aim - y
        amount == most(1, least(PaddleStep, magnitude(delta)))
    IN IF magnitude(delta) < 1 THEN y ELSE clampPaddleY(IF delta < 0 THEN y - amount ELSE y + amount)

Tick(seed) ==
    LET left == Moved(paddles["left"], Aim(ball, "left"))
        right == IF plays THEN Moved(paddles["right"], Aim(ball, "right")) ELSE paddles["right"]
        result == advanceBall(ball, left, right, seed)
    IN /\ paddles' = [paddles EXCEPT !["left"] = left, !["right"] = right]
       /\ ball' = result.ball
       /\ score' = IF result.scorer = "none" THEN score ELSE result.scorer
       /\ UNCHANGED plays

\* The seed of a new ball matters when there is one.
Next == \E seed \in Seeds :
    /\ \/ seed = 0
       \/ Scorer([ball EXCEPT !.x = ball.x + ball.vx]) # "none"
    /\ Tick(seed)

Spec == Init /\ [][Next]_vars

-----------------------------------------------------------------------------
\* The prediction and the physics agree: a paddle that follows the prediction
\* is where the ball crosses, whatever the serve, so no point is ever scored
\* against it; and the ball stays between the edges.
ReflexNeverMisses ==
    /\ score # "right"
    /\ plays => score = "none"
    /\ ball.y \in Radius .. Height - Radius
=============================================================================
