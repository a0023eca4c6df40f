------------------------------ MODULE MCEpoll -------------------------------
(* The epoll proxy for model checking: clients may be exchanged.            *)
EXTENDS EpollProxy, TLC

ClientSymmetry == Permutations(Clients)
=============================================================================
