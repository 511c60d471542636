---------------------------- MODULE MCComponents ----------------------------
(* Seven components that share no state, and of which only safety is asked,  *)
(* checked side by side: a behaviour is one of the merge of a record, of a   *)
(* destination rule, of the owner's account, of a machine credential, of a   *)
(* media asset, of a lifecycle plan or of a walk of the trace list, as focus *)
(* says.  The others stand still.                                            *)
EXTENDS MCRecordMerge, Destinations, OwnerAccount, MachineCredentials, MediaStore,
        LifecyclePlan, TracePages

VARIABLE focus

FirstContent == CHOOSE c \in Contents : TRUE
FirstKind == CHOOSE k \in Kinds : TRUE
FirstType == CHOOSE t \in Types : TRUE

\* What differs between initial states differs only where the focus is.
ComponentsInit ==
    /\ focus \in {"record", "destination", "owner", "credential", "media", "plan", "pages"}
    /\ MergeInit
    /\ focus # "record" =>
           /\ record = "merged" /\ utc /\ past.legacy = 0
           /\ content = [b \in Batches |-> FirstContent]
    /\ DestInit /\ (focus # "destination" => kind = FirstKind /\ pageSize = Min(PageSizes))
    /\ MediaInit /\ (focus # "media" => \A u \in Uploads : upload[u].type = FirstType)
    /\ PlanInit /\ (focus # "plan" => marked = {} /\ limit = Min(Limits))
    /\ PagesInit /\ (focus # "pages" => Shown = {} /\ style = "cursor")
    /\ OwnerInit /\ CredInit

Only(c) == focus = c /\ UNCHANGED focus

ComponentsNext ==
    \/ Only("record") /\ MergeNext
       /\ UNCHANGED <<destAll, ownerVars, credVars, mediaVars, planVars, pageVars>>
    \/ Only("destination") /\ DestNext
       /\ UNCHANGED <<mergeVars, ownerVars, credVars, mediaVars, planVars, pageVars>>
    \/ Only("owner") /\ OwnerNext
       /\ UNCHANGED <<mergeVars, destAll, credVars, mediaVars, planVars, pageVars>>
    \/ Only("credential") /\ CredNext
       /\ UNCHANGED <<mergeVars, destAll, ownerVars, mediaVars, planVars, pageVars>>
    \/ Only("media") /\ MediaNext
       /\ UNCHANGED <<mergeVars, destAll, ownerVars, credVars, planVars, pageVars>>
    \/ Only("plan") /\ PlanNext
       /\ UNCHANGED <<mergeVars, destAll, ownerVars, credVars, mediaVars, pageVars>>
    \/ Only("pages") /\ PagesNext
       /\ UNCHANGED <<mergeVars, destAll, ownerVars, credVars, mediaVars, planVars>>

ComponentsSpec ==
    ComponentsInit /\ [][ComponentsNext]_<<mergeVars, destAll, ownerVars, credVars, mediaVars,
                                           planVars, pageVars, focus>>

(* What the state of the one that runs may be. *)
ComponentsTypeOK ==
    CASE focus = "record"      -> MergeTypeOK
      [] focus = "destination" -> DestTypeOK
      [] focus = "owner"       -> OwnerTypeOK
      [] focus = "credential"  -> CredTypeOK
      [] focus = "media"       -> MediaTypeOK
      [] focus = "plan"        -> PlanTypeOK
      [] focus = "pages"       -> PagesTypeOK

\* Workers are interchangeable.
Symmetry == Permutations(Workers)

\* Project 1 has an old batch and one of its cutoff day, project 2 keeps its own
\* a day less and has an old one; the plan's limit leaves project 3 out.
MCOwned == <<1, 1, 2>>
MCDayOf == <<1, 2, 2>>
MCCutoffDay == <<2, 3, 3>>
=============================================================================
