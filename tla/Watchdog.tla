------------------------------ MODULE Watchdog ------------------------------
(***************************************************************************)
(* The input watchdog (safety/watchdog.py) and its two threads: the        *)
(* server's writes it for each message of the browser and then the slot    *)
(* of held keys, the control loop's reads the slot and asks for the scale. *)
(* No lock: every read and write of a field is a step.  Times are ages,    *)
(* so that a trip in the future is negative.                               *)
(***************************************************************************)
EXTENDS Integers

CONSTANTS Timeout, Ramp,
          NoTime,
          MaxKeys, MaxStalls   \* bounds: messages, stalls of the process

Old == Timeout + 1             \* ages are not told apart beyond it

VARIABLES
  mode, rx, trip,          \* of the watchdog: its state, _last_rx, _trip_t
  slot,                    \* bus.held_keys: are any keys held
  loopAt, used, scaleOut,  \* of the loop: where in scale(), the held keys it read, what came out
  srvAt, held, stamp,      \* of the server: where in on_keys, the message and its age
  keysSent, stalls,
  fresh, owed              \* history: an empty set has been put since the last latch; and what
                           \* the loop's held keys owe, one being due when it read them

wdVars == <<mode, rx, trip, slot, loopAt, used, scaleOut, srvAt, held, stamp, keysSent, stalls, fresh,
            owed>>
loopVars == <<loopAt, used, scaleOut, owed>>
srvVars == <<srvAt, held, stamp>>
countVars == <<keysSent, stalls>>

WdInit == /\ mode = "ok" /\ rx = NoTime /\ trip = NoTime /\ slot = FALSE
          /\ loopAt = "idle" /\ used = FALSE /\ scaleOut = 0
          /\ srvAt = "idle" /\ held = FALSE /\ stamp = 0
          /\ keysSent = 0 /\ stalls = 0 /\ fresh = TRUE /\ owed = FALSE

Latch == mode' = "await_empty" /\ fresh' = FALSE

Older(age) == IF age = NoTime \/ age >= Old THEN age ELSE age + 1

(* Time passes while neither thread is inside a call. *)
WdTick == /\ loopAt = "idle" /\ srvAt = "idle"
          /\ rx' = Older(rx)
          /\ trip' = IF trip = NoTime \/ trip >= Ramp THEN trip ELSE trip + 1
          /\ UNCHANGED <<mode, slot, loopVars, srvVars, countVars, fresh>>

------------------------------------------------------------------------------
(* The loop: the slot, then scale(now). *)
ReadHeld == /\ loopAt = "idle" /\ loopAt' = "scale" /\ used' = slot /\ owed' = ~fresh
            /\ UNCHANGED <<mode, rx, trip, slot, scaleOut, srvVars, countVars, fresh>>

Gives(n) == loopAt' = "idle" /\ scaleOut' = n

ScaleMode ==
  /\ loopAt = "scale"
  /\ \/ mode = "await_empty" /\ Gives(0)
     \/ mode = "ok" /\ rx = NoTime /\ Gives(Ramp)
     \/ mode = "ok" /\ rx # NoTime /\ loopAt' = "compare" /\ UNCHANGED scaleOut
     \/ mode = "tripped" /\ loopAt' = "ramp" /\ UNCHANGED scaleOut
  /\ UNCHANGED <<mode, rx, trip, slot, used, owed, srvVars, countVars, fresh>>

Raises == loopAt' = "idle" /\ scaleOut' = 0   \* the tick ends in an exception: nothing is sent

Compare ==
  /\ loopAt = "compare"
  /\ IF rx = NoTime THEN Raises /\ UNCHANGED mode
     ELSE IF rx <= Timeout THEN Gives(Ramp) /\ UNCHANGED mode
     ELSE mode' = "tripped" /\ loopAt' = "trip" /\ UNCHANGED scaleOut
  /\ UNCHANGED <<rx, trip, slot, used, owed, srvVars, countVars, fresh>>

SetTrip ==
  /\ loopAt = "trip"
  /\ IF rx = NoTime THEN Raises /\ UNCHANGED trip
     ELSE trip' = rx - Timeout /\ loopAt' = "ramp" /\ UNCHANGED scaleOut
  /\ UNCHANGED <<mode, rx, slot, used, owed, srvVars, countVars, fresh>>

AgainFromNow == trip' = 0   \* mutant: the ramp is counted from now at every tick
FromTheTrip == trip' = trip

RampDown ==
  /\ loopAt = "ramp"
  /\ IF trip = NoTime THEN Raises /\ UNCHANGED <<mode, fresh>>
     ELSE IF trip >= Ramp THEN Latch /\ Gives(0)
     ELSE Gives(Ramp - trip) /\ UNCHANGED <<mode, fresh>>
  /\ FromTheTrip
  /\ UNCHANGED <<rx, slot, used, owed, srvVars, countVars>>

(* A driver recovery latches, on the loop's thread. *)
on_recovery == /\ loopAt = "idle" /\ Latch /\ trip' = NoTime
               /\ UNCHANGED <<rx, slot, loopVars, srvVars, countVars>>

(* The process froze: a browser that was fresh when it began is taken to be fresh now. *)
on_process_stall == /\ loopAt = "idle" /\ stalls < MaxStalls /\ stalls' = stalls + 1
                    /\ mode = "ok" /\ rx # NoTime
                    /\ rx' = 0
                    /\ UNCHANGED <<mode, trip, slot, loopVars, srvVars, keysSent, fresh>>

LoopStep == ReadHeld \/ ScaleMode \/ Compare \/ SetTrip \/ RampDown

------------------------------------------------------------------------------
(* The server: a message in sequence; a stale one changes nothing. *)
KeysMsg == /\ srvAt = "idle" /\ keysSent < MaxKeys /\ keysSent' = keysSent + 1
           /\ held' \in BOOLEAN /\ stamp' = 0 /\ srvAt' = "keys"
           /\ UNCHANGED <<mode, rx, trip, slot, loopVars, stalls, fresh>>

StoreRx == /\ srvAt = "keys" /\ rx' = stamp /\ srvAt' = "check"
           /\ UNCHANGED <<mode, trip, slot, loopVars, held, stamp, countVars, fresh>>

CheckEmpty == /\ srvAt = "check"
              /\ srvAt' = IF mode # "ok" /\ ~held THEN "unlatch" ELSE "put"
              /\ UNCHANGED <<mode, rx, trip, slot, loopVars, held, stamp, countVars, fresh>>

Unlatch == /\ srvAt = "unlatch" /\ mode' = "ok" /\ srvAt' = "untrip"
           /\ UNCHANGED <<rx, trip, slot, loopVars, held, stamp, countVars, fresh>>

ClearTrip == /\ srvAt = "untrip" /\ trip' = NoTime /\ srvAt' = "put"
             /\ UNCHANGED <<mode, rx, slot, loopVars, held, stamp, countVars, fresh>>

PutHeld == /\ srvAt = "put" /\ slot' = held /\ srvAt' = "idle"
           /\ fresh' = (fresh \/ ~held)
           /\ UNCHANGED <<mode, rx, trip, loopVars, held, stamp, countVars>>

Disconnect == /\ srvAt = "idle" /\ Latch /\ srvAt' = "dropTrip"
              /\ UNCHANGED <<rx, trip, slot, loopVars, held, stamp, countVars>>

DropTrip == /\ srvAt = "dropTrip" /\ trip' = NoTime /\ srvAt' = "dropRx"
            /\ UNCHANGED <<mode, rx, slot, loopVars, held, stamp, countVars, fresh>>

DropRx == /\ srvAt = "dropRx" /\ rx' = NoTime /\ srvAt' = "idle"
          /\ UNCHANGED <<mode, trip, slot, loopVars, held, stamp, countVars, fresh>>

ServerStep == StoreRx \/ CheckEmpty \/ Unlatch \/ ClearTrip \/ PutHeld \/ DropTrip \/ DropRx

WdNext == WdTick \/ LoopStep \/ on_recovery \/ on_process_stall \/ KeysMsg \/ Disconnect \/ ServerStep

------------------------------------------------------------------------------
(* A browser that goes silent with a key held moves the arm no longer, however the two threads
   interleave: the scale comes to rest at zero, or the browser was never heard. *)
SilenceStops == <>[](scaleOut = 0 \/ rx = NoTime)

(* What the class comment says: the scale is 1.0 and ramps to 0.0. The code does not keep it
   (README, part 5). *)
ScaleInRange == scaleOut <= Ramp

(* What the module comment says, never resume from a replayed held set: the keys that move an
   arm were not read while the empty set that ends a latch was still due. The code does not keep
   it (README, part 5). *)
NeverReplayed == loopAt = "idle" /\ scaleOut > 0 => ~(used /\ owed)
==========================================================================
