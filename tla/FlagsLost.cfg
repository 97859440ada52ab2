SPECIFICATION FlagSpec
CONSTANTS
  Programs <- MCPrograms
  Instructions = {"add", "cmc", "shl_cl"}
INVARIANT NoStaleFlag
