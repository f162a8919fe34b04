---------------------------- MODULE DeployScript ----------------------------
(***************************************************************************)
(* scripts/deploy-testnet.ts, which writes the addresses of the contracts  *)
(* to .env.local, over contracts/bin/livenet.rs, which installs them.      *)
(* Runs follow one another; an address is named for the run it is from.    *)
(***************************************************************************)
EXTENDS Naturals, Sequences

CONSTANT MaxDeploys     \* bound: as many runs

VARIABLES
    deploy,     \* the run: [run, stage, reported]
    envLocal    \* .env.local: its mode and an address for each key

deployVars == <<deploy, envLocal>>

(* The order in which livenet.rs installs and reports them.                *)
CONTRACTS == <<"StakeToken", "MockUsdc", "AttestationRegistry", "Insurance">>
Names == {CONTRACTS[i] : i \in DOMAIN CONTRACTS}

NoFile == [mode |-> "none", of |-> <<>>]

DeployInit ==
    /\ deploy = [run |-> 0, stage |-> "over", reported |-> <<>>]
    /\ envLocal = NoFile

hasTestnetSecrets(env) == {"secret key", "token"} \subseteq env

writeEnvLocal(mode, addresses) == envLocal' = [mode |-> mode, of |-> addresses]

Stage(stage) == deploy' = [deploy EXCEPT !.stage = stage]

(* The mode is chosen by the environment; a dry run prints the command.    *)
StartDeploy ==
    /\ deploy.stage \in {"over", "failed"}
    /\ deploy.run < MaxDeploys
    /\ \E env \in SUBSET {"secret key", "token", "force mock", "dry run"} :
          LET live == hasTestnetSecrets(env) /\ "force mock" \notin env
              run == deploy.run + 1
          IN  /\ deploy' = [run |-> run, reported |-> <<>>,
                            stage |-> IF live /\ "dry run" \notin env
                                      THEN "installing" ELSE "over"]
              /\ IF live THEN UNCHANGED envLocal
                 ELSE writeEnvLocal("mock", [name \in Names |-> 0])

(* livenet.rs installs the next contract and reports its address.          *)
InstallNext ==
    LET next == Len(deploy.reported) + 1
    IN  /\ deploy.stage = "installing"
        /\ next <= Len(CONTRACTS)
        /\ deploy' = [deploy EXCEPT !.reported = Append(@, CONTRACTS[next])]
        /\ UNCHANGED envLocal

(* It may fail at any contract or later, in the demo transactions.         *)
LivenetFails ==
    /\ deploy.stage = "installing"
    /\ Stage("failed")
    /\ UNCHANGED envLocal

(* It ends well with four contracts, the demo transactions asked for or    *)
(* not.                                                                    *)
LivenetEnds ==
    /\ deploy.stage = "installing"
    /\ Len(deploy.reported) = Len(CONTRACTS)
    /\ Stage("ended")
    /\ UNCHANGED envLocal

parseResults(reported) == {reported[i] : i \in DOMAIN reported}

(* Mutation: what was reported is written whatever the exit status.        *)
WriteReported ==
    /\ deploy.stage \in {"failed", "ended"}
    /\ Stage("over")
    /\ writeEnvLocal("live", [name \in parseResults(deploy.reported) |-> deploy.run])

(* Only of a run that ended well, and only with every address.             *)
WriteLive ==
    /\ deploy.stage = "ended"
    /\ parseResults(deploy.reported) = Names
    /\ Stage("over")
    /\ writeEnvLocal("live", [name \in Names |-> deploy.run])

DeployNext ==
    \/ StartDeploy
    \/ InstallNext
    \/ LivenetFails
    \/ LivenetEnds
    \/ WriteLive
-----------------------------------------------------------------------------
(* .env.local never mixes runs or modes: it names all four contracts, all  *)
(* placeholders or all of one run that reported every address and ended    *)
(* well, however many runs failed before or after.                         *)
DeployTellsState ==
    envLocal # NoFile =>
        \E run \in 0 .. deploy.run :
            /\ envLocal.of = [name \in Names |-> run]
            /\ envLocal.mode = "mock" <=> run = 0
            /\ run = deploy.run /\ run > 0 =>
                  deploy.stage = "over" /\ parseResults(deploy.reported) = Names
=============================================================================
