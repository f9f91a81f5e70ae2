-------------------------- MODULE CommandLifecycle --------------------------
(***************************************************************************)
(* What the platform promises about a lock command, without the machinery: *)
(* the statuses a row goes through (README.md, docs/ARCHITECTURE.md) and   *)
(* what the lock has done at each of them.  CommandService implements it   *)
(* as long as store operations are atomic (its in-memory store).           *)
(***************************************************************************)
CONSTANT Commands

VARIABLES status, outcome, lock

vars == <<status, outcome, lock>>

Open == {"pending", "sent", "acknowledged"}

Init == /\ status = [c \in Commands |-> "none"]
        /\ outcome = [c \in Commands |-> "none"]
        /\ lock = [c \in Commands |-> "none"]

Move(c, s, o) == /\ status' = [status EXCEPT ![c] = s]
                 /\ outcome' = [outcome EXCEPT ![c] = o]
                 /\ UNCHANGED lock

\* A row is recorded: for a frame to come, or for one that cannot be sent.
Record(c) == status[c] = "none" /\ Move(c, "pending", "none")
Refuse(c) == status[c] = "none" /\ Move(c, "send_failed", "failure")

\* The frame is written, or the connection was lost before it could be.
Send(c)     == status[c] = "pending" /\ Move(c, "sent", "none")
SendFail(c) == status[c] = "pending" /\ Move(c, "send_failed", "failure")

\* The device's 0x0001: it took the message, or refused it.
Acknowledge(c) == /\ status[c] = "sent" /\ lock[c] # "none"
                  /\ Move(c, "acknowledged", "none")
Reject(c)      == /\ status[c] = "sent" /\ lock[c] = "refused"
                  /\ Move(c, "rejected", "failure")

\* No operation reply in time.
Expire(c) == status[c] \in Open /\ Move(c, "timeout", "timeout")

\* The operation reply, in time or late: what the lock did is what it says.
Complete(c) ==
  /\ status[c] \in Open \cup {"timeout"}
  /\ \/ lock[c] = "succeeded" /\ Move(c, "completed", "success")
     \/ lock[c] = "failed" /\ Move(c, "completed", "failure")

\* The lock takes a command at most once, and only one that was recorded and
\* not reported as never sent; it operates at most once.
Take(c) == /\ status[c] \notin {"none", "send_failed"} /\ lock[c] = "none"
           /\ \E l \in {"accepted", "refused"} : lock' = [lock EXCEPT ![c] = l]
           /\ UNCHANGED <<status, outcome>>
Operate(c) == /\ lock[c] = "accepted"
              /\ \E l \in {"succeeded", "failed"} : lock' = [lock EXCEPT ![c] = l]
              /\ UNCHANGED <<status, outcome>>

Next == \E c \in Commands :
          \/ Record(c) \/ Refuse(c) \/ Send(c) \/ SendFail(c)
          \/ Acknowledge(c) \/ Reject(c) \/ Expire(c) \/ Complete(c)
          \/ Take(c) \/ Operate(c)

Spec == Init /\ [][Next]_vars
=============================================================================
