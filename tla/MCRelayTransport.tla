-------------------------- MODULE MCRelayTransport --------------------------
(* One enclave and one other guest on the relay's port, an anchor with two *)
(* addresses. The pump outlives the enclave's leg, as it may on the host.  *)
EXTENDS RelayTransport
=============================================================================
