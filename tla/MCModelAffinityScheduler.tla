--------------------- MODULE MCModelAffinityScheduler ---------------------
(* Two models, one of them an alternative to the other; a third run can    *)
(* queue behind both, and dispose() is called once.                        *)
EXTENDS ModelAffinityScheduler

CONSTANTS coder, thinker

MCModels == {coder, thinker}
MCCandidateLists == {<<coder>>, <<thinker>>, <<thinker, coder>>}
===========================================================================
