--------------------------- MODULE SearchListOption ---------------------------
(***************************************************************************)
(* The search list from the configuration to the client: process_params of *)
(* backends/memory.rs compresses it (DomainCompression) into the payload   *)
(* of option 119, which is serialised with the other options of the reply  *)
(* and read by the other side (OptionCodec).  A packet that has no search  *)
(* list is OptionCodec alone.                                              *)
(***************************************************************************)
EXTENDS OptionCodec, DomainCompression

searchVars == <<packetVars, compressVars>>

(* No list, and any packet; or a list, and a reply without options.        *)
SearchInit ==
  /\ CompressInit
  /\ \/ names = <<>> /\ Init
     \/ /\ names # <<>>
        /\ header = "good" /\ raw = <<>> /\ position = 0
        /\ options = <<>> /\ status = "decoded"
        /\ sent = NotSent /\ mark = <<>>

(* DOMAINSEARCH in process_params, with an option of the reply either side *)
(* of it.  An empty list sends no option.                                  *)
PushDomainSearch ==
  /\ names # <<>> /\ ~Running
  /\ options = <<>> /\ sent = NotSent
  /\ options' = <<[code |-> 53, data |-> <<2>>],
                  [code |-> 119, data |-> compressed],
                  [code |-> 51, data |-> <<0, 0, 14, 16>>]>>
  /\ UNCHANGED <<header, raw, position, status, sent, mark, compressVars>>

(* The reply is complete.                                                  *)
Composed == names = <<>> \/ options # <<>> \/ sent # NotSent

SearchNext ==
  \/ Compress /\ UNCHANGED packetVars
  \/ PushDomainSearch
  \/ Composed /\ Next /\ UNCHANGED compressVars

SearchSpec == SearchInit /\ [][SearchNext]_searchVars

(* The loops wait for nothing.                                             *)
FairSpec == SearchSpec /\ WF_searchVars(SearchNext)
-----------------------------------------------------------------------------
(* A list of host names whose payload fits one option reaches the client   *)
(* as it was configured, and the options round it arrive with it.          *)
SearchListArrives ==
  /\ names # <<>> /\ ProperList /\ Len(compressed) < 256
  /\ sent # NotSent /\ status \in {"decoded", "rejected"}
  => /\ status = "decoded" /\ Len(options) = 3
     /\ options[2] = [code |-> 119, data |-> compressed]
     /\ Decoded = [k \in DOMAIN names |-> labels_of(names[k])]

(* Every list is compressed, whatever empty parts its names have, and      *)
(* every packet is decoded and serialised, whatever bytes it contains: the *)
(* three loops end.                                                        *)
LoopsEnd ==
  <>(~Running /\ (status = "rejected" \/ (status = "decoded" /\ sent # NotSent)))
=============================================================================
