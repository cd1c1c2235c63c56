SPECIFICATION DriversSpec
CONSTANTS
  Bufs = {b1, b2, b3}
  Vals = {v0, v1}
  Junk = Junk
  Killable = {b1}
  NUM = 7
  IDXMOD = 7
  FirstIdx = 5
  Budgets = {0, 3}
  None = None
  Readers = {r1}
  Writers = {w1, w2}
  Letters = {a}
  NL = NL
  EOF = EOF
  BS = BS
  KILL = KILL
  INPUT_BUF_SIZE = 2
  UINTMOD = 4
  FirstIndex = 3
  UART_TX_BUF_SIZE = 1
  FIFO = 2
  Loads <- MCLoads
  Nobody = Nobody
INVARIANT NeverStuck
INVARIANT OutputInOrder
INVARIANT RequestsAccounted
 
PROPERTY RefinesBlockDevice
PROPERTY RefinesLineDiscipline
CHECK_DEADLOCK FALSE
