---------------------------- MODULE EntryPromotion ----------------------------
(***************************************************************************)
(* The ENTRY promotion program of scripts/trading_kernel/promote_entry.py, *)
(* run on the host: it starts ENTRY behind the fence, certifies the host   *)
(* again and removes the fence.  It runs beside the deployment program and *)
(* may be killed; nothing excludes two operators.                          *)
(***************************************************************************)
EXTENDS ReleaseHost

PromoterIdle == [pc |-> "idle", code |-> "none", env |-> "none", prepare |-> FALSE, basis |-> 0]

PAt(pc) == promoter.pc = pc
PGo(pc) == promoter' = [promoter EXCEPT !.pc = pc] /\ NoFault
PEnd == promoter' = PromoterIdle /\ NoFault

\* certification with the promoter's own code and environment, and _authority_matches: flat, and
\* either an Owner Resume or, to prepare one, a paused policy.  The basis digest covers the policy
\* and the runtime identity.
PromoterCertifies == promoter.env = db.identity /\ SchemaOf(promoter.code) = db.schema
AuthorityMatches ==
  /\ PromoterCertifies /\ FlatCertified(db)
  /\ db.owner.entry = IF promoter.prepare THEN "paused" ELSE "resumed"

\* external_state_and_rules_match and safety_workers_active_stable
Gates == /\ exposure \in {"flat", "closing"}
         /\ SAFETY_SERVICES \subseteq services_active(site)

ActiveWhileFenced == site.fence /\ site.unit["entry"].state # "down"
ActiveUnfenced == ~site.fence /\ site.unit["entry"].state # "down"

BeginPromotion ==
  /\ PAt("idle")
  /\ \E prepare \in BOOLEAN :
       promoter' = [pc |-> "check", code |-> site.current, env |-> site.env,
                    prepare |-> prepare, basis |-> 0]
  /\ NoFault /\ UNCHANGED <<plan, site, db, exposure, op>>

\* Until ENTRY is started a refusal leaves the host as it is; an ENTRY that is active behind the
\* fence is taken for the one an earlier promotion started.
PromotionCheck ==
  /\ PAt("check")
  /\ LET passes == AuthorityMatches /\ Gates
         goes(pc) == promoter' = [promoter EXCEPT !.pc = pc, !.basis = db.owner.version] /\ NoFault
     IN CASE EntryAtRest(site) /\ passes -> goes("start")
          [] ~EntryAtRest(site) /\ passes /\ ActiveWhileFenced -> goes("confirm")
          [] OTHER -> PEnd
  /\ UNCHANGED <<plan, site, db, exposure, op>>

StartEntryWhileFenced ==
  /\ PAt("start") /\ site' = Started(site, {"entry"}) /\ PGo("confirm")
  /\ UNCHANGED <<plan, db, exposure, op>>

\* entry_is_active_while_fenced and the postflight: same basis, same gates.
Confirm ==
  /\ PAt("confirm")
  /\ PGo(IF /\ ActiveWhileFenced /\ AuthorityMatches /\ Gates
            /\ promoter.basis = db.owner.version
         THEN "unfence" ELSE "restore")
  /\ UNCHANGED <<plan, site, db, exposure, op>>

RemoveEntryFence ==
  /\ PAt("unfence") /\ site' = [site EXCEPT !.fence = FALSE] /\ PGo("final")
  /\ UNCHANGED <<plan, db, exposure, op>>

PromotionEnds ==
  /\ PAt("final") /\ (IF ActiveUnfenced THEN PEnd ELSE PGo("restore"))
  /\ UNCHANGED <<plan, site, db, exposure, op>>

\* restore_entry_fence; a call that fails is not looked at.
RestoreEntryFence ==
  /\ PAt("restore")
  /\ \E touched, disabled \in BOOLEAN :
       /\ site' = Fenced(site, touched, disabled)
       /\ promoter' = PromoterIdle
       /\ IF touched /\ disabled THEN NoFault ELSE Fault
  /\ UNCHANGED <<plan, db, exposure, op>>

\* A failing call after the start restores the fence; a killed promoter leaves the host as it is.
PromotionFails ==
  /\ promoter.pc \in {"start", "confirm", "unfence", "final"} /\ Fault
  /\ \/ promoter' = [promoter EXCEPT !.pc = "restore"] /\ UNCHANGED site
     \/ PAt("start") /\ site' = Started(site, {"entry"}) /\ promoter' = [promoter EXCEPT !.pc = "restore"]
     \/ PAt("unfence") /\ site' = [site EXCEPT !.fence = FALSE]
        /\ promoter' = [promoter EXCEPT !.pc = "restore"]
     \/ promoter' = PromoterIdle /\ UNCHANGED site
  /\ UNCHANGED <<plan, db, exposure, op>>

Promote ==
  \/ PromotionCheck \/ StartEntryWhileFenced \/ Confirm \/ RemoveEntryFence \/ PromotionEnds
  \/ RestoreEntryFence

PromotionInit == promoter = PromoterIdle

PromotionTypeOK ==
  promoter \in [pc : {"idle", "check", "start", "confirm", "unfence", "final", "restore"},
                code : Releases \cup {"none"}, env : Releases \cup {"none"}, prepare : BOOLEAN, basis : 0..MaxOwner + 1]

=============================================================================
