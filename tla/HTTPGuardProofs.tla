-------------------------- MODULE HTTPGuardProofs --------------------------
(***************************************************************************)
(* The properties of HTTPGuard, for any number of guards and any report    *)
(* lists.  A body that is not closed yet has an owner: the guard at work,  *)
(* as long as it has not handed the request on, and then a guard that      *)
(* waits for the call it made to return.                                   *)
(***************************************************************************)
EXTENDS HTTPGuard, SequenceTheorems, TLAPS

Positions ==
    {"enter", "read", "extract", "scope", "facts", "run", "inject", "handoff",
     "handler", "return", "done"}

\* A body is closed once at most.
Bodies == {all \in Seq(Body) : \A b \in DOMAIN all : all[b].closes \in {0, 1}}

Working == {"enter", "read", "extract", "scope", "facts", "run", "inject", "handoff"}

\* Where the guard at work has a body it has not closed.
Holding == {"enter", "read", "extract", "inject", "handoff"}

IsOpen(b) == bodies[b].closes = 0

\* Somebody is going to close every body that is not closed.
Owned ==
    /\ at \in Working => \A b \in DOMAIN bodies : IsOpen(b) => b = body
    /\ at \in {"handler", "return"} =>
          \A b \in DOMAIN bodies : IsOpen(b) => \E i \in DOMAIN handedOff : handedOff[i] = b
    /\ at = "done" => \A b \in DOMAIN bodies : ~IsOpen(b)

\* Nothing an extractor left is read, and what is handed on is usable.
Fresh ==
    /\ data # "extractor"
    /\ at \in {"enter", "read", "inject", "handoff"} => Content(body) # "extractor"
    /\ at \in Holding /\ body # 0 => IsOpen(body)
    /\ at \in {"scope", "facts", "run"} => body = 0

\* One answer, in the end.
Answered ==
    /\ at \in Working => written = <<>> /\ served = <<>>
    /\ at = "handler" => written = <<>> /\ Len(served) = 1
    /\ at \in {"return", "done"} => Len(written) + Len(served) = 1

TypeOK ==
    /\ ended \in BOOLEAN
    /\ at \in Positions
    /\ bodies \in Bodies
    /\ body \in 0..Len(bodies)
    /\ data \in Contents
    /\ handedOff \in Seq(Nat)
    /\ written \in Seq(Statuses)
    /\ served \in Seq(Contents)

Inv == TypeOK /\ Owned /\ Fresh /\ Answered

-----------------------------------------------------------------------------
(* What closing and restoring do to the bodies.                            *)

LEMMA ClosedBodies ==
    ASSUME NEW all \in Bodies, NEW S
    PROVE  /\ Closed(all, S) \in Bodies
           /\ Len(Closed(all, S)) = Len(all)
           /\ DOMAIN Closed(all, S) = DOMAIN all
           /\ \A b \in DOMAIN all :
                 /\ Closed(all, S)[b].content = all[b].content
                 /\ Closed(all, S)[b].closes = 0 <=> all[b].closes = 0 /\ b \notin S
<1>1. all \in Seq(Body) /\ DOMAIN all = 1..Len(all) /\ Len(all) \in Nat
  BY DEF Bodies
<1>2. ASSUME NEW b \in DOMAIN all
      PROVE  /\ Closed(all, S)[b] \in Body
             /\ Closed(all, S)[b].closes \in {0, 1}
             /\ Closed(all, S)[b].content = all[b].content
             /\ Closed(all, S)[b].closes = 0 <=> all[b].closes = 0 /\ b \notin S
  <2>1. all[b] \in Body /\ all[b].closes \in {0, 1}
    BY <1>1 DEF Bodies
  <2>2. QED
    BY <2>1 DEF Closed, Body
<1>3. Closed(all, S) \in [1..Len(all) -> Body]
  BY <1>1, <1>2 DEF Closed
<1>4. Closed(all, S) \in Seq(Body) /\ Len(Closed(all, S)) = Len(all)
  BY <1>1, <1>3
<1>5. QED
  BY <1>1, <1>2, <1>3, <1>4 DEF Bodies

LEMMA NewBodies ==
    ASSUME NEW all \in Bodies, NEW content \in Contents, NEW fails \in BOOLEAN
    PROVE  LET more == Append(all, NewBody(content, fails))
           IN  /\ more \in Bodies
               /\ Len(more) = Len(all) + 1
               /\ DOMAIN more = DOMAIN all \cup {Len(all) + 1}
               /\ \A b \in DOMAIN all : more[b] = all[b]
               /\ more[Len(all) + 1].content = content
               /\ more[Len(all) + 1].closes = 0
<1> DEFINE new == NewBody(content, fails)
           more == Append(all, new)
<1>1. new \in Body /\ new.content = content /\ new.closes = 0
  BY DEF NewBody, Body
<1> HIDE DEF new
<1>2. all \in Seq(Body) /\ DOMAIN all = 1..Len(all) /\ Len(all) \in Nat
  BY DEF Bodies
<1>3. /\ more \in Seq(Body) /\ Len(more) = Len(all) + 1
      /\ \A b \in DOMAIN all : more[b] = all[b]
      /\ more[Len(all) + 1] = new
  BY <1>1, <1>2
<1>4. DOMAIN more = DOMAIN all \cup {Len(all) + 1}
  BY <1>2, <1>3
<1>5. more \in Bodies
  BY <1>1, <1>3, <1>4 DEF Bodies
<1>6. QED
  BY <1>1, <1>3, <1>4, <1>5 DEF new

(* One more answer, written.                                               *)
LEMMA RespondAnswers ==
    ASSUME TypeOK, written = <<>>, served = <<>>, NEW status \in Statuses,
           Respond(status), UNCHANGED served
    PROVE  /\ at' = "return" /\ written' = <<status>> /\ written' \in Seq(Statuses)
           /\ Len(written') + Len(served') = 1
BY DEF Respond

-----------------------------------------------------------------------------
(* How a guard's step ends: with an answer, or with the guard at work.     *)

Quiet == UNCHANGED <<ended, handedOff, served>>

LEMMA Stopping ==
    ASSUME Inv, at \in Working, NEW status \in Statuses, Respond(status), Quiet,
           bodies' \in Bodies, body' \in 0..Len(bodies'),
           data' \in Contents \ {"extractor"},
           \A b \in DOMAIN bodies' : bodies'[b].closes # 0
    PROVE  Inv'
<1>1. written = <<>> /\ served = <<>> /\ TypeOK
  BY DEF Inv, Answered
<1>2. /\ at' = "return" /\ written' \in Seq(Statuses)
      /\ Len(written') + Len(served') = 1
  BY <1>1, RespondAnswers DEF Quiet
<1>3. TypeOK'
  BY <1>1, <1>2 DEF TypeOK, Quiet, Positions
<1>4. Owned' /\ Fresh' /\ Answered'
  BY <1>2 DEF Owned, Fresh, Answered, IsOpen, Working, Holding
<1>5. QED
  BY <1>3, <1>4 DEF Inv

LEMMA GoingOn ==
    ASSUME Inv, at \in Working, NEW to \in Working, Proceed(to), Quiet,
           bodies' \in Bodies, body' \in 0..Len(bodies'),
           data' \in Contents \ {"extractor"},
           \A b \in DOMAIN bodies' : bodies'[b].closes = 0 => b = body',
           to \in Holding /\ body' # 0 => bodies'[body'].closes = 0,
           to \in {"read", "inject", "handoff"} => Content(body)' # "extractor",
           to \in {"scope", "facts", "run"} => body' = 0,
           to # "enter"
    PROVE  Inv'
<1>1. written = <<>> /\ served = <<>> /\ TypeOK
  BY DEF Inv, Answered
<1>2. at' = to /\ written' = <<>> /\ served' = <<>>
  BY <1>1 DEF Proceed, Quiet
<1>3. TypeOK'
  BY <1>1, <1>2 DEF TypeOK, Quiet, Positions, Working
<1>4. Owned' /\ Answered'
  BY <1>2 DEF Owned, Answered, IsOpen, Working
<1>5. Fresh'
  BY <1>2 DEF Fresh, IsOpen
<1>6. QED
  BY <1>3, <1>4, <1>5 DEF Inv

\* What the invariant says of the body while a guard is at work.
LEMMA AtWork ==
    ASSUME Inv, at \in Working
    PROVE  /\ bodies \in Bodies /\ DOMAIN bodies = 1..Len(bodies) /\ Len(bodies) \in Nat
           /\ body \in 0..Len(bodies)
           /\ data \in Contents \ {"extractor"}
           /\ \A b \in DOMAIN bodies : bodies[b].closes = 0 => b = body
           /\ at \in Holding /\ body # 0 => bodies[body].closes = 0
           /\ at \in {"enter", "read", "inject", "handoff"} => Content(body) # "extractor"
           /\ Content(body) \in Contents
<1>1. bodies \in Seq(Body) /\ bodies \in Bodies /\ body \in 0..Len(bodies)
  BY DEF Inv, TypeOK, Bodies
<1>2. Content(body) \in Contents
  <2>1. CASE body = 0
    BY <2>1 DEF Content, Contents
  <2>2. CASE body # 0
    <3>1. bodies[body] \in Body
      BY <1>1, <2>2
    <3>2. QED
      BY <2>2, <3>1 DEF Content, Body
  <2>3. QED
    BY <2>1, <2>2
<1>3. QED
  BY <1>1, <1>2 DEF Inv, TypeOK, Owned, Fresh, IsOpen

-----------------------------------------------------------------------------
(* Every action keeps the invariant.                                       *)

LEMMA InvInit == Init => Inv
<1>1. SUFFICES ASSUME Init PROVE Inv
  OBVIOUS
<1>2. PICK fails \in BOOLEAN : bodies = <<NewBody("client", fails)>>
  BY <1>1 DEF Init
<1> DEFINE first == NewBody("client", fails)
<1>3. first \in Body /\ first.content = "client" /\ first.closes = 0
  BY DEF NewBody, Body, Contents
<1> HIDE DEF first
<1>4. /\ bodies \in Seq(Body) /\ Len(bodies) = 1 /\ DOMAIN bodies = {1}
      /\ bodies[1] = first
  BY <1>2, <1>3 DEF first
<1>5. bodies \in Bodies
  BY <1>3, <1>4 DEF Bodies
<1>6. TypeOK
  <2>1. ended \in BOOLEAN
    BY <1>1 DEF Init
  <2>2. QED
    BY <1>1, <1>4, <1>5, <2>1 DEF Init, TypeOK, Positions, Contents
<1>7. Owned /\ Answered
  BY <1>1, <1>4 DEF Init, Owned, Answered, Working
<1>8. Fresh
  BY <1>1, <1>3, <1>4 DEF Init, Fresh, Content, IsOpen
<1>9. QED
  BY <1>6, <1>7, <1>8 DEF Inv

LEMMA EnterInv == ASSUME Inv, Enter PROVE Inv'
<1>1. at \in Working /\ at \in Holding /\ at = "enter" /\ Quiet /\ data' = data
  BY DEF Enter, Working, Holding, Quiet
<1>2. CASE ended
  <2>1. bodies' = Closed(bodies, {body}) /\ body' = 0 /\ Respond("failure")
    BY <1>2 DEF Enter
  <2>2. bodies' \in Bodies /\ \A b \in DOMAIN bodies' : bodies'[b].closes # 0
    BY <1>1, <2>1, AtWork, ClosedBodies
  <2>3. body' \in 0..Len(bodies')
    BY <1>1, <2>1, AtWork, ClosedBodies
  <2>4. QED
    BY <1>1, <2>1, <2>2, <2>3, AtWork, Stopping DEF Statuses
<1>3. CASE ~ended
  <2>1. Proceed("read") /\ UNCHANGED <<bodies, body>>
    BY <1>3 DEF Enter
  <2>2. Content(body)' = Content(body)
    BY <2>1 DEF Content
  <2>3. QED
    BY <1>1, <2>1, <2>2, AtWork, GoingOn DEF Working
<1>4. QED
  BY <1>2, <1>3

(* A restored body is the only one that is open.                           *)
LEMMA Restored ==
    ASSUME NEW all \in Bodies, RestoreHTTPBody(all), data' \in Contents,
           \A b \in DOMAIN all : all[b].closes # 0
    PROVE  /\ bodies' \in Bodies /\ body' \in 1..Len(bodies')
           /\ \A b \in DOMAIN bodies' : bodies'[b].closes = 0 => b = body'
           /\ bodies'[body'].closes = 0
           /\ Content(body)' = data'
<1>1. bodies' = Append(all, NewBody(data', FALSE)) /\ body' = Len(all) + 1
  BY DEF RestoreHTTPBody
<1>2. Len(all) \in Nat
  BY DEF Bodies
<1>3. /\ bodies' \in Bodies /\ Len(bodies') = Len(all) + 1
      /\ DOMAIN bodies' = DOMAIN all \cup {Len(all) + 1}
      /\ \A b \in DOMAIN all : bodies'[b] = all[b]
      /\ bodies'[Len(all) + 1].content = data' /\ bodies'[Len(all) + 1].closes = 0
  BY <1>1, NewBodies
<1>4. body' = Len(all) + 1
  BY <1>1
<1>5. body' # 0 /\ body' \in 1..Len(bodies')
  BY <1>2, <1>3, <1>4
<1>6. bodies'[body'].content = data' /\ bodies'[body'].closes = 0
  BY <1>3, <1>4
<1>7. Content(body)' = data'
  BY <1>5, <1>6 DEF Content
<1>8. \A b \in DOMAIN bodies' : bodies'[b].closes = 0 => b = body'
  BY <1>3, <1>4
<1>9. QED
  BY <1>3, <1>5, <1>6, <1>7, <1>8

LEMMA ReadBodyInv ==
    ASSUME Inv, NEW outcome \in {"ok", "too_large", "invalid", "canceled"},
           ReadBody(outcome)
    PROVE  Inv'
<1> DEFINE all == Closed(bodies, {body})
           closeErr == body # 0 /\ bodies[body].fails
           good == ~Interrupted(outcome) /\ ~closeErr /\ outcome = "ok"
<1>1. at \in Working /\ at = "read" /\ Quiet
  BY DEF ReadBody, Working, Quiet
<1>2. all \in Bodies /\ \A b \in DOMAIN all : all[b].closes # 0
  BY <1>1, AtWork, ClosedBodies
<1>3. data' \in Contents \ {"extractor"}
  BY <1>1, AtWork DEF ReadBody
<1>4. CASE good
  <2>1. RestoreHTTPBody(all) /\ Proceed("extract")
    BY <1>4 DEF ReadBody
  <2> HIDE DEF all
  <2>2. /\ bodies' \in Bodies /\ body' \in 1..Len(bodies')
        /\ \A b \in DOMAIN bodies' : bodies'[b].closes = 0 => b = body'
        /\ bodies'[body'].closes = 0
    BY <1>2, <1>3, <2>1, Restored
  <2>3. body' \in 0..Len(bodies')
    BY <2>2
  <2>4. QED
    BY <1>1, <1>3, <2>1, <2>2, <2>3, GoingOn DEF Working
<1>5. CASE ~good
  <2>1. bodies' = all /\ body' = 0
    BY <1>5 DEF ReadBody
  <2>2. PICK status \in Statuses : Respond(status)
    <3>1. Respond(IF Interrupted(outcome) \/ closeErr THEN "failure" ELSE outcome)
      BY <1>5 DEF ReadBody
    <3>2. Interrupted(outcome) \/ closeErr \/ outcome \in {"too_large", "invalid"}
      BY <1>5 DEF Interrupted
    <3>3. QED
      BY <3>1, <3>2 DEF Statuses
  <2> HIDE DEF all
  <2>3. body' \in 0..Len(bodies')
    BY <1>2, <2>1 DEF Bodies
  <2>4. QED
    BY <1>1, <1>2, <1>3, <2>1, <2>2, <2>3, Stopping
<1>6. QED
  BY <1>4, <1>5

(* What a callback leaves: the body it borrowed, none, or a new one.       *)
LEMMA CallbackBodies ==
    ASSUME Inv, at \in Working, NEW deed \in Deeds, NEW content \in Contents
    PROVE  LET current == Current(deed)
               all     == Installed(bodies, deed, content)
           IN  /\ all \in Bodies
               /\ current \in 0..Len(all)
               /\ \A b \in DOMAIN all : all[b].closes = 0 => b \in {body, current}
               /\ current = body /\ body # 0 =>
                     /\ ~deed.closes
                     /\ all[body] = bodies[body]
               /\ current # body /\ current # 0 =>
                     /\ all[current].closes = 0
                     /\ all[current].content = content
<1> DEFINE current == Current(deed)
           all == Installed(bodies, deed, content)
           fails == deed.installs = "faulty"
<1>1. /\ bodies \in Bodies /\ DOMAIN bodies = 1..Len(bodies) /\ Len(bodies) \in Nat
      /\ body \in 0..Len(bodies)
      /\ \A b \in DOMAIN bodies : bodies[b].closes = 0 => b = body
  BY AtWork
<1>2. /\ deed.installs \in {"none", "nil", "sound", "faulty"}
      /\ deed.closes => deed.installs # "none"
  BY DEF Deeds
<1>3. CASE deed.installs = "none"
  <2>1. all = bodies /\ current = body /\ ~deed.closes
    BY <1>2, <1>3 DEF Installed, Current
  <2> HIDE DEF all, current
  <2>2. QED
    BY <1>1, <2>1 DEF all, current
<1>4. CASE deed.installs = "nil"
  <2>1. all = bodies /\ current = 0
    BY <1>4 DEF Installed, Current
  <2> HIDE DEF all, current
  <2>2. QED
    BY <1>1, <2>1 DEF all, current
<1>5. CASE deed.installs \in {"sound", "faulty"}
  <2>1. all = Append(bodies, NewBody(content, fails)) /\ current = Len(bodies) + 1
    BY <1>5 DEF Installed, Current
  <2>2. fails \in BOOLEAN
    OBVIOUS
  <2> HIDE DEF all, current, fails
  <2>3. /\ all \in Bodies /\ Len(all) = Len(bodies) + 1
        /\ DOMAIN all = DOMAIN bodies \cup {Len(bodies) + 1}
        /\ \A b \in DOMAIN bodies : all[b] = bodies[b]
        /\ all[Len(bodies) + 1].content = content /\ all[Len(bodies) + 1].closes = 0
    BY <1>1, <2>1, <2>2, NewBodies
  <2>4. current = Len(bodies) + 1
    BY <2>1
  <2>5. current \in 0..Len(all) /\ current # body
    BY <1>1, <2>3, <2>4
  <2>6. \A b \in DOMAIN all : all[b].closes = 0 => b \in {body, current}
    BY <1>1, <2>3, <2>4
  <2>7. QED
    BY <2>3, <2>4, <2>5, <2>6 DEF all, current
<1>6. QED
  BY <1>2, <1>3, <1>4, <1>5

LEMMA ExtractorInv ==
    ASSUME Inv, NEW deed \in Deeds, ExtractorReturns(deed)
    PROVE  Inv'
<1> DEFINE current == Current(deed)
           all == Installed(bodies, deed, "extractor")
           closing == FinishHTTPCallback(current, FALSE)
           S == closing \cup (IF deed.closes THEN {body} ELSE {})
           closeErr == \E b \in closing \cap DOMAIN all : all[b].fails
           bad == Interrupted(deed.answer) \/ closeErr
<1>1. at \in Working /\ at = "extract" /\ Quiet /\ data' = data
  BY DEF ExtractorReturns, Working, Quiet
<1>2. /\ all \in Bodies
      /\ \A b \in DOMAIN all : all[b].closes = 0 => b \in {body, current}
  BY <1>1, CallbackBodies DEF Contents
<1>3. {body, current} \subseteq S
  BY DEF FinishHTTPCallback
<1>4. bodies' = Closed(all, S) /\ body' = 0
  BY DEF ExtractorReturns
<1>5. \/ \E status \in Statuses : Respond(status)
      \/ Proceed("scope")
  <2>1. CASE bad
    <3>1. Respond("failure")
      BY <2>1 DEF ExtractorReturns
    <3>2. QED
      BY <3>1 DEF Statuses
  <2>2. CASE ~bad /\ deed.answer = "failed"
    <3>1. Respond("invalid")
      BY <2>2 DEF ExtractorReturns
    <3>2. QED
      BY <3>1 DEF Statuses
  <2>3. CASE ~bad /\ deed.answer # "failed"
    BY <2>3 DEF ExtractorReturns
  <2>4. QED
    BY <2>1, <2>2, <2>3
<1> HIDE DEF all, S, current
<1>6. bodies' \in Bodies /\ \A b \in DOMAIN bodies' : bodies'[b].closes # 0
  BY <1>2, <1>3, <1>4, ClosedBodies
<1>7. body' \in 0..Len(bodies')
  BY <1>4, <1>6 DEF Bodies
<1>8. data' \in Contents \ {"extractor"}
  BY <1>1, AtWork
<1>9. CASE \E status \in Statuses : Respond(status)
  BY <1>1, <1>6, <1>7, <1>8, <1>9, Stopping
<1>10. CASE Proceed("scope")
  BY <1>1, <1>4, <1>6, <1>7, <1>8, <1>10, GoingOn DEF Working
<1>11. QED
  BY <1>5, <1>9, <1>10

\* A step that leaves the bodies alone, where the guard holds none.
LEMMA Empty ==
    ASSUME Inv, at \in {"scope", "facts", "run"}
    PROVE  at \in Working /\ body = 0 /\ \A b \in DOMAIN bodies : bodies[b].closes # 0
<1>1. at \in Working /\ body = 0
  BY DEF Inv, Fresh, Working
<1>2. QED
  BY <1>1, AtWork

LEMMA InjectorInv ==
    ASSUME Inv, NEW deed \in Deeds, InjectorReturns(deed)
    PROVE  Inv'
<1> DEFINE current == Current(deed)
           all == Installed(bodies, deed, "injector")
           keep == ~Interrupted(deed.answer) /\ deed.answer = "ok"
           S == FinishHTTPCallback(current, keep)
                   \cup (IF deed.closes THEN {body} ELSE {})
<1>1. at \in Working /\ at \in Holding /\ at = "inject" /\ Quiet /\ data' = data
  BY DEF InjectorReturns, Working, Holding, Quiet
<1>2. /\ all \in Bodies
      /\ current \in 0..Len(all)
      /\ \A b \in DOMAIN all : all[b].closes = 0 => b \in {body, current}
      /\ current = body /\ body # 0 => ~deed.closes /\ all[body] = bodies[body]
      /\ current # body /\ current # 0 =>
            all[current].closes = 0 /\ all[current].content = "injector"
  BY <1>1, CallbackBodies DEF Contents
<1>3. bodies' = Closed(all, S)
  BY DEF InjectorReturns
<1>4. data' \in Contents \ {"extractor"}
  BY <1>1, AtWork
<1>5. current # body => body \in S
  BY DEF FinishHTTPCallback
<1>6. keep => body' = current /\ Proceed("handoff")
  BY DEF InjectorReturns
<1>7. ~keep => body' = 0 /\ Respond("failure") /\ current \in S
  BY DEF InjectorReturns, FinishHTTPCallback
<1>8. keep /\ current # 0 => current \notin S
  <2>1. SUFFICES ASSUME keep, current # 0, current \in S PROVE FALSE
    OBVIOUS
  <2>2. current = body /\ deed.closes
    BY <2>1 DEF FinishHTTPCallback
  <2>3. QED
    BY <1>2, <2>1, <2>2
<1> HIDE DEF all, S, current, keep
<1>9. /\ bodies' \in Bodies /\ Len(bodies') = Len(all) /\ DOMAIN bodies' = DOMAIN all
      /\ \A b \in DOMAIN all :
            /\ bodies'[b].content = all[b].content
            /\ bodies'[b].closes = 0 <=> all[b].closes = 0 /\ b \notin S
  BY <1>2, <1>3, ClosedBodies
<1>10. CASE keep
  <2>1. body' = current /\ body' \in 0..Len(bodies')
    BY <1>2, <1>6, <1>9, <1>10
  <2>2. \A b \in DOMAIN bodies' : bodies'[b].closes = 0 => b = body'
    BY <1>2, <1>5, <1>9, <2>1
  <2>3. ASSUME body' # 0
        PROVE  bodies'[body'].closes = 0 /\ bodies'[body'].content # "extractor"
    <3>1. current \in DOMAIN all /\ current \notin S
      BY <1>2, <1>8, <1>10, <2>1, <2>3 DEF Bodies
    <3>2. CASE current = body
      BY <1>1, <1>2, <1>9, <2>1, <2>3, <3>1, <3>2, AtWork DEF Content
    <3>3. CASE current # body
      BY <1>2, <1>9, <2>1, <2>3, <3>1, <3>3
    <3>4. QED
      BY <3>2, <3>3
  <2>4. Content(body)' # "extractor"
    BY <2>3 DEF Content
  <2>5. Proceed("handoff") /\ "handoff" \in Working /\ "handoff" # "enter"
    BY <1>6, <1>10 DEF Working
  <2>6. QED
    BY <1>1, <1>4, <1>9, <2>1, <2>2, <2>3, <2>4, <2>5, GoingOn
<1>11. CASE ~keep
  <2>1. \A b \in DOMAIN bodies' : bodies'[b].closes # 0
    BY <1>2, <1>5, <1>7, <1>9, <1>11
  <2>2. body' \in 0..Len(bodies')
    BY <1>7, <1>9, <1>11 DEF Bodies
  <2>3. Respond("failure") /\ "failure" \in Statuses
    BY <1>7, <1>11 DEF Statuses
  <2>4. QED
    BY <1>1, <1>4, <1>9, <2>1, <2>2, <2>3, Stopping
<1>12. QED
  BY <1>10, <1>11

LEMMA FactsInv ==
    ASSUME Inv, ResolveScope \/ \E ok \in BOOLEAN : FactsReturn(ok)
    PROVE  Inv'
<1>1. /\ at \in {"scope", "facts", "run"} /\ Quiet
      /\ UNCHANGED <<bodies, body, data>>
      /\ Respond("failure") \/ Proceed("facts") \/ Proceed("run")
  BY DEF ResolveScope, FactsReturn, Quiet
<1>2. /\ at \in Working /\ body' = 0 /\ \A b \in DOMAIN bodies' : bodies'[b].closes # 0
      /\ bodies' \in Bodies /\ body' \in 0..Len(bodies') /\ data' \in Contents \ {"extractor"}
  BY <1>1, Empty, AtWork
<1>3. CASE Respond("failure")
  BY <1>1, <1>2, <1>3, Stopping DEF Statuses
<1>4. CASE Proceed("facts")
  BY <1>1, <1>2, <1>4, GoingOn DEF Working
<1>5. CASE Proceed("run")
  BY <1>1, <1>2, <1>5, GoingOn DEF Working
<1>6. QED
  BY <1>1, <1>3, <1>4, <1>5

LEMMA RunInv ==
    ASSUME Inv, NEW answer, NEW scopeMissing \in BOOLEAN, RunReturns(answer, scopeMissing)
    PROVE  Inv'
<1> DEFINE faulted == DecisionDisposition(PolicyDecision(answer.reports, answer.kind))
                          = "system_fault"
           good == ~answer.fault /\ ~faulted /\ ~Refused(answer)
<1>1. at = "run" /\ Quiet /\ data' = data
  BY DEF RunReturns, Quiet
<1>2. /\ at \in Working /\ body = 0 /\ \A b \in DOMAIN bodies : bodies[b].closes # 0
      /\ bodies \in Bodies /\ body \in 0..Len(bodies) /\ data' \in Contents \ {"extractor"}
  BY <1>1, Empty, AtWork
<1>3. CASE good
  <2>1. RestoreHTTPBody(bodies) /\ (Proceed("inject") \/ Proceed("handoff"))
    BY <1>3 DEF RunReturns
  <2>2. /\ bodies' \in Bodies /\ body' \in 1..Len(bodies')
        /\ \A b \in DOMAIN bodies' : bodies'[b].closes = 0 => b = body'
        /\ bodies'[body'].closes = 0
        /\ Content(body)' = data'
    BY <1>2, <2>1, Restored
  <2>3. body' \in 0..Len(bodies') /\ Content(body)' # "extractor"
    BY <1>2, <2>2
  <2>4. CASE Proceed("inject")
    BY <1>1, <1>2, <2>2, <2>3, <2>4, GoingOn DEF Working
  <2>5. CASE Proceed("handoff")
    BY <1>1, <1>2, <2>2, <2>3, <2>5, GoingOn DEF Working
  <2>6. QED
    BY <2>1, <2>4, <2>5
<1>4. CASE ~good
  <2>1. UNCHANGED <<bodies, body>>
    BY <1>4 DEF RunReturns
  <2>2. PICK status \in {"scope_missing", "failure", "decision"} : Respond(status)
    <3>1. Respond(IF scopeMissing THEN "scope_missing"
                  ELSE IF answer.fault \/ faulted THEN "failure" ELSE "decision")
      BY <1>4 DEF RunReturns
    <3>2. QED
      BY <3>1
  <2>3. status \in Statuses
    BY DEF Statuses
  <2>4. QED
    BY <1>1, <1>2, <2>1, <2>2, <2>3, Stopping
<1>5. QED
  BY <1>3, <1>4

(* The body handed on is the waiting guard's from here.                    *)
LEMMA HandOffInv == ASSUME Inv, HandOff PROVE Inv'
<1>1. at = "handoff" /\ at \in Working /\ at \in Holding
  BY DEF HandOff, Working, Holding
<1>2. /\ bodies \in Bodies /\ body \in 0..Len(bodies) /\ Len(bodies) \in Nat
      /\ data \in Contents \ {"extractor"} /\ handedOff \in Seq(Nat)
      /\ \A b \in DOMAIN bodies : bodies[b].closes = 0 => b = body
      /\ body # 0 => bodies[body].closes = 0
      /\ Content(body) # "extractor" /\ Content(body) \in Contents
      /\ written = <<>> /\ served = <<>>
  BY <1>1, AtWork DEF Inv, TypeOK, Answered
<1>3. UNCHANGED <<ended, bodies, body, data>>
  BY DEF HandOff
<1>4. /\ handedOff' = Append(handedOff, body) /\ handedOff' \in Seq(Nat)
      /\ Len(handedOff) + 1 \in DOMAIN handedOff'
      /\ handedOff'[Len(handedOff) + 1] = body
  <2>1. handedOff' = Append(handedOff, body) /\ body \in Nat
    BY <1>2 DEF HandOff
  <2>2. QED
    BY <1>2, <2>1
<1>5. \A b \in DOMAIN bodies : bodies[b].closes = 0 =>
         \E i \in DOMAIN handedOff' : handedOff'[i] = b
  BY <1>2, <1>4
<1>6. Content(body)' = Content(body)
  BY <1>3 DEF Content
<1>7. \/ Respond("failure") /\ UNCHANGED served
      \/ Proceed("enter") /\ UNCHANGED served
      \/ Proceed("handler") /\ served' = <<Content(body)>>
  BY DEF HandOff
<1>8. /\ at' \in {"return", "enter", "handler"}
      /\ written' \in Seq(Statuses) /\ served' \in Seq(Contents)
      /\ at' = "enter" => written' = <<>> /\ served' = <<>>
      /\ at' = "handler" => written' = <<>> /\ Len(served') = 1
      /\ at' = "return" => Len(written') + Len(served') = 1
  <2>1. CASE Respond("failure") /\ UNCHANGED served
    <3>1. at' = "return" /\ written' = <<"failure">> /\ served' = <<>>
      BY <1>2, <2>1 DEF Respond
    <3>2. QED
      BY <3>1 DEF Statuses
  <2>2. CASE Proceed("enter") /\ UNCHANGED served
    BY <1>2, <2>2 DEF Proceed
  <2>3. CASE Proceed("handler") /\ served' = <<Content(body)>>
    <3>1. at' = "handler" /\ written' = <<>> /\ served' = <<Content(body)>>
      BY <1>2, <2>3 DEF Proceed
    <3>2. QED
      BY <1>2, <3>1
  <2>4. QED
    BY <1>7, <2>1, <2>2, <2>3
<1>9. ended' \in BOOLEAN
  BY <1>3 DEF Inv, TypeOK
<1>10. TypeOK'
  BY <1>2, <1>3, <1>4, <1>8, <1>9 DEF TypeOK, Positions
<1>11. Owned' /\ Answered'
  BY <1>2, <1>3, <1>5, <1>8 DEF Owned, Answered, IsOpen, Working
<1>12. Fresh'
  BY <1>2, <1>3, <1>6, <1>8 DEF Fresh, IsOpen
<1>13. QED
  BY <1>10, <1>11, <1>12 DEF Inv

LEMMA HandlerInv ==
    ASSUME Inv, NEW closes \in BOOLEAN, NEW replaces \in BOOLEAN,
           HandlerReturns(closes, replaces)
    PROVE  Inv'
<1>1. /\ at = "handler" /\ at' = "return"
      /\ UNCHANGED <<ended, data, handedOff, served, written>>
      /\ bodies' \in {bodies, Closed(bodies, {body})}
      /\ body' \in {0, body}
  BY DEF HandlerReturns, Proceed
<1>2. /\ bodies' \in Bodies /\ Len(bodies') = Len(bodies) /\ DOMAIN bodies' = DOMAIN bodies
      /\ \A b \in DOMAIN bodies : bodies'[b].closes = 0 => bodies[b].closes = 0
  BY <1>1, ClosedBodies DEF Inv, TypeOK
<1>3. body' \in 0..Len(bodies')
  BY <1>1, <1>2 DEF Inv, TypeOK, Bodies
<1>4. TypeOK'
  BY <1>1, <1>2, <1>3 DEF Inv, TypeOK, Positions
<1>5. Owned'
  BY <1>1, <1>2 DEF Inv, Owned, IsOpen, Working
<1>6. Len(written) = 0
  BY <1>1 DEF Inv, Answered
<1>7. Fresh' /\ Answered'
  BY <1>1, <1>6 DEF Inv, Fresh, Answered, Working, Holding
<1>8. QED
  BY <1>4, <1>5, <1>7 DEF Inv

(* The innermost guard that waits closes the body it handed on.            *)
LEMMA ReturnInv == ASSUME Inv, Return PROVE Inv'
<1>1. at = "return" /\ UNCHANGED <<ended, body, data, served, written>>
  BY DEF Return, Proceed
<1>2. /\ bodies \in Bodies /\ Len(bodies) \in Nat /\ handedOff \in Seq(Nat)
      /\ \A b \in DOMAIN bodies : bodies[b].closes = 0 =>
            \E i \in DOMAIN handedOff : handedOff[i] = b
  BY <1>1 DEF Inv, TypeOK, Owned, Bodies, IsOpen
<1>3. CASE handedOff = <<>>
  <2>1. at' = "done" /\ UNCHANGED <<bodies, handedOff>>
    BY <1>3 DEF Return, Proceed
  <2>2. TypeOK'
    BY <1>1, <2>1 DEF Inv, TypeOK, Positions
  <2>3. Owned'
    BY <1>2, <1>3, <2>1 DEF Owned, IsOpen, Working
  <2>4. Fresh' /\ Answered'
    BY <1>1, <2>1 DEF Inv, Fresh, Answered, Working, Holding
  <2>5. QED
    BY <2>2, <2>3, <2>4 DEF Inv
<1>4. CASE handedOff # <<>>
  <2> DEFINE n == Len(handedOff)
  <2>1. /\ bodies' = Closed(bodies, {handedOff[n]})
        /\ handedOff' = SubSeq(handedOff, 1, n - 1)
        /\ at' = "return"
    BY <1>1, <1>4 DEF Return
  <2>2. n \in Nat \ {0} /\ DOMAIN handedOff = 1..n
    BY <1>2, <1>4
  <2>3. /\ handedOff' \in Seq(Nat) /\ DOMAIN handedOff' = 1..(n - 1)
        /\ \A i \in 1..(n - 1) : handedOff'[i] = handedOff[i]
    BY <1>2, <2>1, <2>2
  <2>4. /\ bodies' \in Bodies /\ Len(bodies') = Len(bodies) /\ DOMAIN bodies' = DOMAIN bodies
        /\ \A b \in DOMAIN bodies :
              bodies'[b].closes = 0 => bodies[b].closes = 0 /\ b # handedOff[n]
    BY <1>2, <2>1, ClosedBodies
  <2>5. ASSUME NEW b \in DOMAIN bodies', bodies'[b].closes = 0
        PROVE  \E i \in DOMAIN handedOff' : handedOff'[i] = b
    <3>1. PICK i \in DOMAIN handedOff : handedOff[i] = b
      BY <1>2, <2>4, <2>5
    <3>2. i \in 1..(n - 1)
      BY <2>2, <2>4, <2>5, <3>1
    <3>3. QED
      BY <2>3, <3>1, <3>2
  <2>6. TypeOK'
    BY <1>1, <2>1, <2>3, <2>4 DEF Inv, TypeOK, Positions
  <2>7. Owned'
    BY <2>1, <2>5 DEF Owned, IsOpen, Working
  <2>8. Fresh' /\ Answered'
    BY <1>1, <2>1 DEF Inv, Fresh, Answered, Working, Holding
  <2>9. QED
    BY <2>6, <2>7, <2>8 DEF Inv
<1>5. QED
  BY <1>3, <1>4

LEMMA ContextInv == ASSUME Inv, ContextEnds PROVE Inv'
<1>1. ended' = TRUE /\ UNCHANGED <<at, bodies, body, data, handedOff, written, served>>
  BY DEF ContextEnds
<1>2. Content(body)' = Content(body)
  BY <1>1 DEF Content
<1>3. ended' \in BOOLEAN
  BY <1>1
<1>4. TypeOK'
  BY <1>1, <1>3 DEF Inv, TypeOK
<1>5. Owned' /\ Fresh' /\ Answered'
  BY <1>1, <1>2 DEF Inv, Owned, Fresh, Answered, IsOpen
<1>6. QED
  BY <1>4, <1>5 DEF Inv

LEMMA InvStep == Inv /\ [Next]_vars => Inv'
<1>1. SUFFICES ASSUME Inv, [Next]_vars PROVE Inv'
  OBVIOUS
<1>2. ASSUME UNCHANGED vars PROVE Inv'
  <2>1. Content(body)' = Content(body)
    BY <1>2 DEF vars, Content
  <2>2. QED
    BY <1>1, <1>2, <2>1 DEF vars, Inv, TypeOK, Owned, Fresh, Answered, IsOpen
<1>3. CASE Enter
  BY <1>1, <1>3, EnterInv
<1>4. CASE \E outcome \in {"ok", "too_large", "invalid", "canceled"} : ReadBody(outcome)
  BY <1>1, <1>4, ReadBodyInv
<1>5. CASE \E deed \in Deeds : ExtractorReturns(deed) \/ InjectorReturns(deed)
  BY <1>1, <1>5, ExtractorInv, InjectorInv
<1>6. CASE ResolveScope \/ \E ok \in BOOLEAN : FactsReturn(ok)
  BY <1>1, <1>6, FactsInv
<1>7. CASE \E answer \in RunAnswers({data}, ReportLists, FALSE), scopeMissing \in BOOLEAN :
              RunReturns(answer, scopeMissing)
  BY <1>1, <1>7, RunInv
<1>8. CASE HandOff
  BY <1>1, <1>8, HandOffInv
<1>9. CASE Return
  BY <1>1, <1>9, ReturnInv
<1>10. CASE \E closes \in BOOLEAN, replaces \in BOOLEAN : HandlerReturns(closes, replaces)
  BY <1>1, <1>10, HandlerInv
<1>11. CASE ContextEnds
  BY <1>1, <1>11, ContextInv
<1>12. QED
  BY <1>1, <1>2, <1>3, <1>4, <1>5, <1>6, <1>7, <1>8, <1>9, <1>10, <1>11
     DEF Next, Guard, Finished

(* The invariant holds of every request, for any number of guards.         *)
THEOREM InvAlways == Spec => []Inv
BY InvInit, InvStep, PTL DEF Spec

-----------------------------------------------------------------------------
(* The properties the runs check.                                          *)

(* Every body ever on the request is closed, and closed once, when the     *)
(* request is over (http_guard.go, the deferred closes and                 *)
(* finishHTTPCallback), and exactly one answer was given.                  *)
THEOREM BodiesAlwaysClosedOnce == Spec => []BodiesClosedOnce
<1>1. Inv => BodiesClosedOnce
  <2>1. SUFFICES ASSUME Inv, at = "done" PROVE BodiesClosedOnce
    BY DEF BodiesClosedOnce
  <2>2. \A b \in DOMAIN bodies : bodies[b].closes = 1
    BY <2>1 DEF Inv, TypeOK, Bodies, Owned, IsOpen
  <2>3. Len(written) + Len(served) = 1
    BY <2>1 DEF Inv, Answered
  <2>4. QED
    BY <2>2, <2>3 DEF BodiesClosedOnce
<1>2. QED
  BY <1>1, InvAlways, PTL

(* A next guard or the handler gets a request under a live context, with   *)
(* an open body that no extractor made, all others being closed.           *)
THEOREM AlwaysHandedOnSafely == Spec => HandedOnSafely
<1>1. ASSUME Inv, [Next]_vars, at = "handoff", at' \in {"enter", "handler"}
      PROVE  /\ ~ended
             /\ Content(body) # "extractor"
             /\ \A b \in DOMAIN bodies : b = body <=> bodies[b].closes = 0
  <2>1. HandOff
    BY <1>1 DEF Next, Guard, vars, Enter, ReadBody, ExtractorReturns, InjectorReturns,
                ResolveScope, FactsReturn, RunReturns, Return, HandlerReturns,
                ContextEnds, Finished
  <2>2. ~ended
    BY <1>1, <2>1 DEF HandOff, Respond
  <2>3. QED
    BY <1>1, <2>2 DEF Inv, Owned, Fresh, IsOpen, Working, Holding, TypeOK, Bodies
<1>2. QED
  BY <1>1, InvAlways, PTL DEF Spec, HandedOnSafely

(* An end of the request is never blamed on the client or the policy.      *)
THEOREM StatusAlwaysBlamesCaller == Spec => StatusBlamesCaller
<1> DEFINE Blaming == {"too_large", "invalid", "decision"}
<1>1. ASSUME Inv, [Next]_vars, at' = "return", written' # written,
             written'[Len(written')] \in Blaming
      PROVE  ~ended
  <2>1. ASSUME NEW status, Respond(status) PROVE status \in Blaming
    <3>1. written \in Seq(Statuses)
      BY <1>1 DEF Inv, TypeOK
    <3>2. written' = Append(written, status)
      BY <2>1 DEF Respond
    <3>3. written'[Len(written')] = status
      BY <3>1, <3>2, AppendProperties
    <3>4. QED
      BY <1>1, <3>3
  <2>2. CASE Enter
    BY <1>1, <2>1, <2>2 DEF Enter, Proceed
  <2>3. CASE \E outcome \in {"ok", "too_large", "invalid", "canceled"} : ReadBody(outcome)
    <3>1. PICK outcome \in {"ok", "too_large", "invalid", "canceled"} : ReadBody(outcome)
      BY <2>3
    <3> DEFINE closeErr == body # 0 /\ bodies[body].fails
    <3>2. \/ Proceed("extract")
          \/ Respond(IF Interrupted(outcome) \/ closeErr THEN "failure" ELSE outcome)
      BY <3>1 DEF ReadBody
    <3>3. ~Interrupted(outcome)
      <4>1. SUFFICES ASSUME Interrupted(outcome) PROVE FALSE
        OBVIOUS
      <4>2. Respond("failure")
        BY <1>1, <3>2, <4>1 DEF Proceed
      <4>3. QED
        BY <2>1, <4>2
    <3>4. QED
      BY <3>3 DEF Interrupted
  <2>4. CASE \E deed \in Deeds : ExtractorReturns(deed)
    <3>1. PICK deed \in Deeds : ExtractorReturns(deed)
      BY <2>4
    <3>2. Respond("failure") \/ Respond("invalid") \/ Proceed("scope")
      BY <3>1 DEF ExtractorReturns
    <3>3. Interrupted(deed.answer) => Respond("failure")
      BY <3>1 DEF ExtractorReturns
    <3>4. ~Interrupted(deed.answer)
      BY <2>1, <3>3
    <3>5. QED
      BY <3>4 DEF Interrupted
  <2>5. CASE \E deed \in Deeds : InjectorReturns(deed)
    BY <1>1, <2>1, <2>5 DEF InjectorReturns, Proceed
  <2>6. CASE ResolveScope \/ \E ok \in BOOLEAN : FactsReturn(ok)
    BY <1>1, <2>1, <2>6 DEF ResolveScope, FactsReturn, Proceed
  <2>7. CASE \E answer \in RunAnswers({data}, ReportLists, FALSE), missing \in BOOLEAN :
                RunReturns(answer, missing)
    <3>1. PICK answer \in RunAnswers({data}, ReportLists, FALSE), missing \in BOOLEAN :
                  RunReturns(answer, missing)
      BY <2>7
    <3>2. SUFFICES ASSUME ended PROVE FALSE
      OBVIOUS
    <3>3. answer.fault
      BY <3>1, <3>2 DEF RunReturns, RunAnswers, RunAnswer
    <3>4. Respond(IF missing THEN "scope_missing" ELSE "failure")
      BY <3>1, <3>3 DEF RunReturns
    <3>5. QED
      BY <2>1, <3>4
  <2>8. CASE HandOff
    BY <1>1, <2>1, <2>8 DEF HandOff, Proceed
  <2>9. CASE Return \/ (\E closes \in BOOLEAN, replaces \in BOOLEAN :
                           HandlerReturns(closes, replaces))
             \/ ContextEnds \/ Finished \/ UNCHANGED vars
    BY <1>1, <2>9 DEF Return, HandlerReturns, Proceed, ContextEnds, Finished, vars
  <2>10. QED
    BY <1>1, <2>2, <2>3, <2>4, <2>5, <2>6, <2>7, <2>8, <2>9 DEF Next, Guard
<1>2. QED
  BY <1>1, InvAlways, PTL DEF Spec, StatusBlamesCaller

=============================================================================
