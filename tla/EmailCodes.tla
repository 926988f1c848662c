------------------------------ MODULE EmailCodes ------------------------------
(***************************************************************************)
(* Codes sent by mail: EmailVerifier.SendCode and Verify.  A code is a key   *)
(* in Redis, one for each address and purpose, that the next code           *)
(* overwrites; a second key keeps an address from being written to again    *)
(* for a while.  Each command to Redis is a step of its own.                *)
(*                                                                         *)
(* A code is told by the purpose its reader knows it for: one that is not     *)
(* mailed yet, or never will be, nobody can enter.                          *)
(***************************************************************************)
CONSTANTS
  Emails,       \* addresses of the allowed domains
  Requests,     \* goroutines of the server; each serves one call at a time
  None          \* an absent key, column or value

Scenes == {"register", "login", "reset", "bind"}

VARIABLES
  code,         \* code[k] : the purpose the code at Redis key k was mailed for;
                \* None if there is no code that anybody knows
  unsent,       \* the codes in Redis that a call has still to mail
  cooldown,     \* the addresses whose key of the cooldown exists
  proven        \* history: the addresses at which a code was read that lets
                \* its reader have an account

codes == <<code, unsent, cooldown, proven>>

Keys == Emails \X Scenes

Unsent == [by : Requests, key : Keys]

CodesTypeOK ==
  /\ code \in [Keys -> Scenes \cup {None}]
  /\ unsent \in SUBSET Unsent
  /\ cooldown \in SUBSET Emails
  /\ proven \in SUBSET Emails

CodesInit ==
  /\ code = [k \in Keys |-> None]
  /\ unsent = {}
  /\ cooldown = {}
  /\ proven = {}

-----------------------------------------------------------------------------
CodeKey_NoScene(e, s) == <<e, "login">>

CodeKey(e, s) == <<e, s>>

NotAt(k) == {x \in unsent : x.key # k}

(* SET of the code call r has made, over the one that is there. *)
StoreCode(r, e, s) ==
  LET k == CodeKey(e, s) IN
  /\ code' = [code EXCEPT ![k] = None]
  /\ unsent' = NotAt(k) \cup {[by |-> r, key |-> k]}
  /\ UNCHANGED <<cooldown, proven>>

(* SET of the cooldown, whose error is ignored. *)
MarkCooldown(e) ==
  /\ cooldown' \in {cooldown, cooldown \cup {e}}
  /\ UNCHANGED <<code, unsent, proven>>

(* The mail goes out, and with it perhaps a code that is no longer there. *)
MailCode(r, e, s) ==
  LET k    == CodeKey(e, s)
      mine == [by |-> r, key |-> k]
  IN
  /\ code' = IF mine \in unsent THEN [code EXCEPT ![k] = s] ELSE code
  /\ unsent' = unsent \ {mine}
  /\ UNCHANGED <<cooldown, proven>>

(* The call that was to mail it ends: nobody will know the code. *)
ForgetCode(r) ==
  /\ unsent' = {x \in unsent : x.by # r}
  /\ UNCHANGED <<code, cooldown, proven>>

(* GET of the code, which is the one that was entered. *)
ReadCode(e, s) ==
  LET known == code[CodeKey(e, s)] IN
  /\ known # None
  /\ proven' = IF known = s /\ s # "reset" THEN proven \cup {e} ELSE proven
  /\ UNCHANGED <<code, unsent, cooldown>>

(* DEL of the code that is there by now; its error is ignored. *)
DropCode(e, s) ==
  LET k == CodeKey(e, s) IN
  /\ \/ code' = [code EXCEPT ![k] = None] /\ unsent' = NotAt(k)
     \/ UNCHANGED <<code, unsent>>
  /\ UNCHANGED <<cooldown, proven>>

(* codeTTL and codeCooldown run out. *)
CodeExpires(k) ==
  /\ code[k] # None
  /\ code' = [code EXCEPT ![k] = None]
  /\ UNCHANGED <<unsent, cooldown, proven>>

CooldownExpires(e) ==
  /\ e \in cooldown
  /\ cooldown' = cooldown \ {e}
  /\ UNCHANGED <<code, unsent, proven>>
=============================================================================
