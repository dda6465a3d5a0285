------------------------------ MODULE MCWallet ------------------------------
\* Instance of Wallet for TLC.
EXTENDS Wallet, TLC

CONSTANTS p1, p2, own, electrumsv1, electrumsv2

Start == [kind |-> "start", id |-> DefaultId, given |-> FALSE, net |-> "regtest", seed |-> FALSE,
          offline |-> "none", file |-> Worker, waits |-> FALSE]
Reset == [kind |-> "reset", id |-> NoId, given |-> FALSE, net |-> "regtest", seed |-> FALSE,
          offline |-> "none", file |-> Worker, waits |-> FALSE]
\* What is entered in the behaviours.
MCLines ==
    {Start, [Start EXCEPT !.net = "testnet"], [Start EXCEPT !.seed = TRUE],
     [Start EXCEPT !.offline = "create_account", !.waits = TRUE],
     [Start EXCEPT !.offline = "create_wallet", !.file = own,
                   !.id = electrumsv2, !.given = TRUE, !.seed = TRUE],
     [Start EXCEPT !.offline = "create_wallet"],
     Reset, [Reset EXCEPT !.net = "testnet", !.id = DefaultId, !.given = TRUE, !.seed = TRUE]}
=============================================================================
