SPECIFICATION Spec
INVARIANT PhyFullDuplex
