----------------------------- MODULE OplIocTest -----------------------------
(***************************************************************************)
(* The program of the runtime's own test of IOC and IOCANCEL, as a client  *)
(* of the event loop (oplr/opltest/Interactive/pMainI/pIO.tpl): it waits   *)
(* for a timer and a key at the same time and cancels the other one, and   *)
(* calls an IOWAIT after which neither status word is written a stray      *)
(* signal.                                                                 *)
(***************************************************************************)
EXTENDS OplEventLoop

CONSTANTS Timer, Cancel     \* two requests: that of IOC(tHand%,1,...) and that of IOCANCEL

VARIABLE step               \* the statement the test program executes next

testVars == <<vars, step>>
At(s) == step = s /\ pc = "run"
Then(s) == step' = s

TestInit == Init /\ step = "ioc"

TestIoc    == At("ioc") /\ Ioa(Timer) /\ Then("keya")
TestKeyA   == At("keya") /\ KeyA("keys") /\ Then("iowait")
TestIoWait == At("iowait") /\ IoWait /\ Then("look")

\* IF tStat%<>-46 ... ELSEIF kStat%<>-46 ... ELSE stray
TimerExpired == word[Timer] # "pending"
KeyPressed   == word["keya"] # "pending"

TestTimerExpired == At("look") /\ TimerExpired /\ KeyC /\ Then("ioc")
TestKeyPressed   ==
  At("look") /\ ~TimerExpired /\ KeyPressed /\ IoCancel(Timer, Cancel) /\ Then("waittimer")
TestWaitTimer    == At("waittimer") /\ IoWaitStat(Timer) /\ Then("ioc")
TestStraySignal  ==
  At("look") /\ ~TimerExpired /\ ~KeyPressed /\ Then("iowait") /\ UNCHANGED vars

TestProgram ==
  \/ TestIoc \/ TestKeyA \/ TestIoWait
  \/ TestTimerExpired \/ TestKeyPressed \/ TestWaitTimer \/ TestStraySignal

TestNext == TestProgram \/ ((Loop \/ Environment) /\ UNCHANGED step)

TestSpec == TestInit /\ [][TestNext]_testVars

\* hLog%:(KhLogAlways%,"!!ERROR: tIOc: Stray signal death!!!"): the test does not expect
\* IOWAIT to return while both status words are still pending.
NoStraySignal == At("look") => TimerExpired \/ KeyPressed
=============================================================================
