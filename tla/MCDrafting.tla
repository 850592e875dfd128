----------------------------- MODULE MCDrafting -----------------------------
(***************************************************************************)
(* The scheduler alone, for long runs of reports, and the provider that    *)
(* contains it under any caller, for short ones: a behaviour is of one     *)
(* kind or of the other.                                                   *)
(***************************************************************************)
EXTENDS DraftSchedule, ProviderProtocol

VARIABLE part

Half == <<1, 2>>
NineTenths == <<9, 10>>
TwoCosts == {<<0, 0>>, <<1, 2>>, <<2, 2>>}
TokenSet == {"a", "b"}
OnePrompt == <<"a">>

providerOnly == <<provider, cursor, shown, told, throws>>
scheduleOnly == <<offered, blocks, confirmed, refused, rests>>

DraftingInit ==
    /\ ScheduleInit /\ ProtocolInit
    /\ \/ part = "schedule" /\ provider.kind = "replay"
       \/ part = "provider" /\ config.maximum = 4

ScheduleStep == part = "schedule" /\ ScheduleNext /\ UNCHANGED <<part, providerOnly>>
ProviderStep == part = "provider" /\ ProtocolNext /\ UNCHANGED <<part, scheduleOnly>>

DraftingNext == ScheduleStep \/ ProviderStep

DraftingSpec == DraftingInit /\ [][DraftingNext]_<<scheduleVars, part, providerOnly>>
=============================================================================
