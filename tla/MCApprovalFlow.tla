-------------------------- MODULE MCApprovalFlow --------------------------
EXTENDS ApprovalFlow, TLC

MCProcs == Chats \cup Workers
MCSymmetry == Permutations(Workers) \cup Permutations(Chats) \cup Permutations(Calls)
===========================================================================
