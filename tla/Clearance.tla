------------------------------ MODULE Clearance -----------------------------
(***************************************************************************)
(* What the conflict check promises the firm, apart from how it is kept.   *)
(* The registry holds a profile of each opponent.  A new matter may be     *)
(* cleared for a set of profiles as they are at that moment; changing a    *)
(* profile takes away, in the same step, every clearance that covers it;   *)
(* a denied matter is never cleared again.                                 *)
(***************************************************************************)
CONSTANTS Matters, Opponents, Profiles, NoProfile

VARIABLES profile,    \* Opponents -> the profile on record
          clearance,  \* Matters -> the profiles it is cleared for
          denied      \* the matters denied for good

vars == <<profile, clearance, denied>>

Cleared == [opponent : Opponents, profile : Profiles]

Init ==
  /\ profile = [o \in Opponents |-> NoProfile]
  /\ clearance = [m \in Matters |-> {}]
  /\ denied = {}

Covers(m, o) == \E c \in clearance[m] : c.opponent = o

(* A first profile, or a changed one. *)
Profile(o) ==
  /\ \E new \in Profiles \ {profile[o]} :
       profile' = [profile EXCEPT ![o] = new]
  /\ clearance' = [m \in Matters |->
                     IF Covers(m, o) THEN {} ELSE clearance[m]]
  /\ UNCHANGED denied

(* Cleared against some of the opponents on record, at their profiles. *)
Clear(m) ==
  /\ m \notin denied
  /\ \E os \in (SUBSET {o \in Opponents : profile[o] # NoProfile}) \ {{}} :
       clearance' = [clearance EXCEPT ![m] =
                       {[opponent |-> o, profile |-> profile[o]] : o \in os}]
  /\ UNCHANGED <<profile, denied>>

Withdraw(m) ==
  /\ clearance[m] # {}
  /\ clearance' = [clearance EXCEPT ![m] = {}]
  /\ UNCHANGED <<profile, denied>>

Deny(m) ==
  /\ denied' = denied \cup {m}
  /\ clearance' = [clearance EXCEPT ![m] = {}]
  /\ UNCHANGED profile

Next ==
  \/ \E o \in Opponents : Profile(o)
  \/ \E m \in Matters : Clear(m) \/ Withdraw(m) \/ Deny(m)

Spec == Init /\ [][Next]_vars
=============================================================================
